---- MODULE Spec2Model ----
(***************************************************************************)
(* A model of RichTextEditor (src/richtext-editor.js): the content model   *)
(* (lines of text items), the rendered surface (the contenteditable's      *)
(* child nodes), the surface selection, and the public operations that     *)
(* read the selection, rewrite the content and re-render.                  *)
(*                                                                         *)
(* Strings are sequences of one-character strings.  A class attribute is   *)
(* the sequence of its whitespace-separated tokens.  A styles object is    *)
(* the sequence of its <<key, value>> entries in insertion order, which is *)
(* the order JSON.stringify and Object.entries see.                        *)
(***************************************************************************)
EXTENDS Integers, Sequences, FiniteSets, TLC

\* Number of events (calls of public operations, reported edits and changes
\* of the selection by the user) explored from construction.
MaxOps == 4

\* How far before 0 and past the end of the content an index argument goes.
MaxBeyond == 1

\* The longest plain text an edit of the earlier class reports.
MaxText == 3

\* Number of calls and edits of the earlier class explored from construction.
MaxEdits == 2

----------------------------------------------------------------------------
\* Generic sequence helpers

RECURSIVE SeqSum(_)
SeqSum(s) == IF s = <<>> THEN 0 ELSE Head(s) + SeqSum(Tail(s))

RECURSIVE Flatten(_)
Flatten(ss) == IF ss = <<>> THEN <<>> ELSE Head(ss) \o Flatten(Tail(ss))

SeqRange(s) == {s[i] : i \in 1..Len(s)}

Min2(a, b) == IF a < b THEN a ELSE b
Max2(a, b) == IF a > b THEN a ELSE b

\* The elements of s at the positions in I, in increasing order of position.
PickSeq(s, I) ==
    [k \in 1..Cardinality(I) |->
        s[CHOOSE i \in I : Cardinality({j \in I : j < i}) = k - 1]]

----------------------------------------------------------------------------
\* Class strings

\* Every class token of the model, in the order Array.prototype.sort gives.
TokenOrder == <<"align", "bold", "italic">>

\* new Set(String(cls || '').trim().split(/\s+/).filter(Boolean)): the tokens
\* in first-occurrence order.
toClassSet(cls) ==
    PickSeq(cls, {i \in 1..Len(cls) : \A j \in 1..(i - 1) : cls[j] # cls[i]})

\* Array.from(toClassSet(cls)).sort().join(' ')
canonClass(cls) == SelectSeq(TokenOrder, LAMBDA t : t \in SeqRange(cls))

mergeClasses(orig, add) == toClassSet(orig \o add)

removeClasses(orig, remove) ==
    SelectSeq(toClassSet(orig), LAMBDA t : t \notin SeqRange(remove))

\* The tokens as a set (what Set.has answers).
ClassTokens(cls) == SeqRange(cls)

----------------------------------------------------------------------------
\* Styles objects

StyleKeys(st) == {st[i][1] : i \in 1..Len(st)}

StyleValue(st, k) == st[CHOOSE i \in 1..Len(st) : st[i][1] = k][2]

\* The styles object as a mapping, without its key order.
StyleMap(st) == [k \in StyleKeys(st) |-> StyleValue(st, k)]

\* { ...a, ...b }: a's keys keep their place and take b's value when b has
\* the key; b's other keys follow in b's order.
spreadStyles(a, b) ==
    [i \in 1..Len(a) |->
        IF a[i][1] \in StyleKeys(b) THEN <<a[i][1], StyleValue(b, a[i][1])>>
        ELSE a[i]]
    \o SelectSeq(b, LAMBDA e : e[1] \notin StyleKeys(a))

\* JSON.stringify(a || null) === JSON.stringify(b || null)
sameStyles(a, b) == a = b

----------------------------------------------------------------------------
\* The content model: a sequence of lines; a line is its items plus the
\* line-level _lineClassName and _lineStyles; an item is {type:'text',
\* content, className?, styles?}.  An absent className or styles is the empty
\* sequence.  An item whose content is '' is a line break (BR).

makeItem(text, cls, stl) ==
    [content |-> text, className |-> canonClass(cls), styles |-> stl]

IsBreak(item) == item.content = <<>>

\* What an item adds to the linear index: 1 for a BR, else its length.
ItemWidth(item) == IF IsBreak(item) THEN 1 ELSE Len(item.content)

LineWidth(line) == 1 + SeqSum([i \in 1..Len(line.items) |-> ItemWidth(line.items[i])])

\* The value of idx when the loop reaches line li (before its idx += 1).
LineStart(content, li) == SeqSum([j \in 1..(li - 1) |-> LineWidth(content[j])])

\* The value of idx when the loop reaches item i of line li.
ItemStart(content, li, i) ==
    LineStart(content, li) + 1
    + SeqSum([j \in 1..(i - 1) |-> ItemWidth(content[li].items[j])])

\* The linear length the content loops count (setContentFromJson's endIndex).
ContentLength(content) == LineStart(content, Len(content) + 1)

\* mergeStep with "prev.content = it.content" for "prev.content += it.content".
mergeStepDropping(out, it) ==
    IF /\ out # <<>>
       /\ out[Len(out)].content # <<>>
       /\ it.content # <<>>
       /\ canonClass(out[Len(out)].className) = canonClass(it.className)
       /\ sameStyles(out[Len(out)].styles, it.styles)
    THEN [out EXCEPT ![Len(out)].content = it.content]
    ELSE Append(out, it)

mergeStep(out, it) ==
    IF /\ out # <<>>
       /\ out[Len(out)].content # <<>>
       /\ it.content # <<>>
       /\ canonClass(out[Len(out)].className) = canonClass(it.className)
       /\ sameStyles(out[Len(out)].styles, it.styles)
    THEN [out EXCEPT ![Len(out)].content = @ \o it.content]
    ELSE Append(out, it)

RECURSIVE mergeInto(_, _)
mergeInto(out, arr) ==
    IF arr = <<>> THEN out ELSE mergeInto(mergeStep(out, Head(arr)), Tail(arr))

mergeAdjacent(arr) == mergeInto(<<>>, arr)

\* Where the while loop over a content item of length len starting at linear
\* index chunkStart cuts it: the first a characters come before the
\* selection, the characters up to b are selected, the rest comes after.
\* cutItem without the pre-selection branch: the selected part starts with
\* the item.
cutItemNoPre(len, chunkStart, selectionStart, selectionEnd) ==
    [outside |-> selectionEnd <= chunkStart \/ selectionStart >= chunkStart + len,
     a |-> 0,
     b |-> Min2(selectionEnd, chunkStart + len) - chunkStart]

cutItem(len, chunkStart, selectionStart, selectionEnd) ==
    [outside |-> selectionEnd <= chunkStart \/ selectionStart >= chunkStart + len,
     a |-> Max2(selectionStart, chunkStart) - chunkStart,
     b |-> Min2(selectionEnd, chunkStart + len) - chunkStart]

\* applyFormatSelected giving the selected part the new class and styles in
\* place of the item's.
applyFormatSelectedReplacing(item, text, className, selectionStyles) ==
    makeItem(text, className, selectionStyles)

applyFormatSelected(item, text, className, selectionStyles) ==
    makeItem(text,
             IF className # <<>> THEN mergeClasses(item.className, className)
             ELSE item.className,
             IF selectionStyles # <<>> THEN spreadStyles(item.styles, selectionStyles)
             ELSE item.styles)

\* unapplyFormatSelected with "newStyles = originalStyles" and the class
\* kept whenever another token remains on the item.
unapplyFormatSelectedKeeping(item, text, className) ==
    IF className = <<>> THEN makeItem(text, <<>>, item.styles)
    ELSE IF Len(toClassSet(item.className)) > Len(className) THEN makeItem(text, item.className, item.styles)
    ELSE makeItem(text, removeClasses(item.className, className), item.styles)

\* removeAll: className == null || String(className).trim() === ''
unapplyFormatSelected(item, text, className) ==
    IF className = <<>> THEN makeItem(text, <<>>, <<>>)
    ELSE makeItem(text, removeClasses(item.className, className), item.styles)

\* The selected part of an item under op, the method whose loop runs:
\* applyFormat with its className and styles, or unapplyFormat with its
\* className.
selectedPart(op, item, text) ==
    IF op.name = "applyFormat"
    THEN applyFormatSelected(item, text, op.className, op.styles)
    ELSE unapplyFormatSelected(item, text, op.className)

\* The while loop over one content item: the part before the selection and
\* the part after it keep the item's class and styles, the part inside
\* becomes the selected part under op.
splitItem(item, chunkStart, selectionStart, selectionEnd, op) ==
    LET text == item.content
        cut == cutItem(Len(text), chunkStart, selectionStart, selectionEnd)
    IN  IF cut.outside
        THEN <<makeItem(text, item.className, item.styles)>>
        ELSE (IF cut.a > 0
              THEN <<makeItem(SubSeq(text, 1, cut.a), item.className, item.styles)>>
              ELSE <<>>)
             \o <<selectedPart(op, item, SubSeq(text, cut.a + 1, cut.b))>>
             \o (IF cut.b < Len(text)
                 THEN <<makeItem(SubSeq(text, cut.b + 1, Len(text)),
                                 item.className, item.styles)>>
                 ELSE <<>>)

\* The loop over lines and items that applyFormat and unapplyFormat both
\* have.
rewriteLines(content, selectionStart, selectionEnd, op) ==
    [li \in 1..Len(content) |->
        [content[li] EXCEPT !.items =
            mergeAdjacent(Flatten(
                [i \in 1..Len(content[li].items) |->
                    LET item == content[li].items[i]
                    IN  IF IsBreak(item) THEN <<item>>
                        ELSE splitItem(item, ItemStart(content, li, i),
                                       selectionStart, selectionEnd, op)]))]]

applyFormatLines(content, selectionStart, selectionEnd, className, selectionStyles) ==
    rewriteLines(content, selectionStart, selectionEnd,
                 [name |-> "applyFormat", className |-> className,
                  styles |-> selectionStyles])

unapplyFormatLines(content, selectionStart, selectionEnd, className) ==
    rewriteLines(content, selectionStart, selectionEnd,
                 [name |-> "unapplyFormat", className |-> className,
                  styles |-> <<>>])

unapplyAllItem(item, className) ==
    IF IsBreak(item) THEN item
    ELSE IF className = <<>> THEN makeItem(item.content, <<>>, <<>>)
    ELSE makeItem(item.content, removeClasses(item.className, className), item.styles)

unapplyAllFormatLines(content, className) ==
    [li \in 1..Len(content) |->
        [content[li] EXCEPT !.items =
            mergeAdjacent([i \in 1..Len(content[li].items) |->
                              unapplyAllItem(content[li].items[i], className)])]]

----------------------------------------------------------------------------
\* The surface: the child nodes of the contenteditable element.  A top-level
\* node is a DIV (with its class attribute, its style declarations and its
\* child nodes) or a text node.  A child of a DIV is a SPAN holding one text
\* node, a BR, or a text node.

NoSel == [active |-> FALSE,
          s |-> [k |-> "doc", d |-> 0, c |-> 0, o |-> 0],
          e |-> [k |-> "doc", d |-> 0, c |-> 0, o |-> 0]]

\* Boundary points.  k names the container: "doc" the document (outside the
\* editor), "root" the editor element, "top" top-level node d, "kid" child c
\* of DIV d, "txt" the text node of SPAN c of DIV d.  o is the offset.
Point(k, d, c, o) == [k |-> k, d |-> d, c |-> c, o |-> o]

\* The declaration block of an element's style attribute.  A name starting
\* with two dashes is a custom property and keeps the value it is given; of
\* the properties the browser knows, the model has color, whose value is
\* kept in its computed form; a name the browser does not know is not stored.
CustomProperties == {"--x", "--y"}

KnownProperties == {"color"}

cssValue(name, value) ==
    IF name \in KnownProperties /\ value = "#ff0" THEN "rgb(255, 255, 0)" ELSE value

\* style.setProperty(k, v) for each entry of a styles object, read back as
\* handleInput reads it: by index, with getPropertyValue.
styleDeclarations(styles) ==
    LET stored == SelectSeq(styles,
                            LAMBDA s : s[1] \in CustomProperties \cup KnownProperties)
    IN  [i \in 1..Len(stored) |-> <<stored[i][1], cssValue(stored[i][1], stored[i][2])>>]

spanNode(item) ==
    [tag |-> "span", className |-> item.className,
     styles |-> styleDeclarations(item.styles), text |-> item.content]

brNode == [tag |-> "br", className |-> <<>>, styles |-> <<>>, text |-> <<>>]

\* One DIV of updateDom: a line whose items are all BRs gets no class and no
\* styles.
renderLine(line) ==
    LET isBrOnlyLine == \A i \in 1..Len(line.items) : IsBreak(line.items[i])
    IN  [tag |-> "div",
         className |-> IF isBrOnlyLine THEN <<>> ELSE line.lineClassName,
         styles |-> IF isBrOnlyLine THEN <<>> ELSE styleDeclarations(line.lineStyles),
         kids |-> [i \in 1..Len(line.items) |->
                      IF IsBreak(line.items[i]) THEN brNode
                      ELSE spanNode(line.items[i])],
         text |-> <<>>]

\* updateDom: a DIV without child nodes is not appended.
updateDom(content) ==
    SelectSeq([li \in 1..Len(content) |-> renderLine(content[li])],
              LAMBDA n : n.kids # <<>>)

\* What a node adds to the index of the tree walks: a DIV or BR counts 1, a
\* text node its length, a SPAN nothing.
KidWidth(kid) == IF kid.tag = "br" THEN 1 ELSE Len(kid.text)

TopWidth(n) ==
    IF n.tag = "div"
    THEN 1 + SeqSum([c \in 1..Len(n.kids) |-> KidWidth(n.kids[c])])
    ELSE Len(n.text)

\* The index at which the walk reaches top-level node d.
TopStart(dom, d) == SeqSum([j \in 1..(d - 1) |-> TopWidth(dom[j])])

\* The index at which the walk reaches child c of DIV d.
KidStart(dom, d, c) ==
    TopStart(dom, d) + 1 + SeqSum([j \in 1..(c - 1) |-> KidWidth(dom[d].kids[j])])

DomLength(dom) == TopStart(dom, Len(dom) + 1)

\* The walk of getCaretIndex / getCaretStartIndex for one boundary point: it
\* stops at the container, adding the offset only for a text node; a
\* container the walk never meets (the editor itself, the document) lets it
\* run to the end.
walkIndex(dom, p) ==
    CASE p.k = "top" ->
            TopStart(dom, p.d) + (IF dom[p.d].tag = "#text" THEN p.o ELSE 0)
      [] p.k = "kid" ->
            KidStart(dom, p.d, p.c)
            + (IF dom[p.d].kids[p.c].tag = "#text" THEN p.o ELSE 0)
      [] p.k = "txt" -> KidStart(dom, p.d, p.c) + p.o
      [] OTHER -> DomLength(dom)

getCaretIndex(dom, sel) == IF ~sel.active THEN 0 ELSE walkIndex(dom, sel.e)

getCaretStartIndex(dom, sel) == IF ~sel.active THEN 0 ELSE walkIndex(dom, sel.s)

----------------------------------------------------------------------------
\* Tree order of boundary points, as Range.setStart / setEnd compare them.
\* Every node is an opening mark, its children or characters, and a closing
\* mark; a boundary point is the number of marks and characters before it.

KidSize(kid) ==
    CASE kid.tag = "span" -> 4 + Len(kid.text)
      [] kid.tag = "br" -> 2
      [] OTHER -> 2 + Len(kid.text)

TopSize(n) ==
    IF n.tag = "div"
    THEN 2 + SeqSum([c \in 1..Len(n.kids) |-> KidSize(n.kids[c])])
    ELSE 2 + Len(n.text)

TopOpen(dom, d) == SeqSum([j \in 1..(d - 1) |-> TopSize(dom[j])])

KidOpen(dom, d, c) ==
    TopOpen(dom, d) + 1 + SeqSum([j \in 1..(c - 1) |-> KidSize(dom[d].kids[j])])

pointRank(dom, p) ==
    CASE p.k = "root" -> TopOpen(dom, p.o + 1)
      [] p.k = "top" ->
            IF dom[p.d].tag = "div" THEN KidOpen(dom, p.d, p.o + 1)
            ELSE TopOpen(dom, p.d) + 1 + p.o
      [] p.k = "kid" ->
            IF dom[p.d].kids[p.c].tag = "span"
            THEN KidOpen(dom, p.d, p.c) + 1 + p.o * (2 + Len(dom[p.d].kids[p.c].text))
            ELSE KidOpen(dom, p.d, p.c) + 1 + p.o
      [] p.k = "txt" -> KidOpen(dom, p.d, p.c) + 2 + p.o
      [] OTHER -> -1

\* The nodes a SHOW_ALL TreeWalker on the editor visits, in order.  w is
\* "text" for a text node, "inc" for a DIV or BR, "none" for a SPAN.
walkKid(d, c, kid) ==
    CASE kid.tag = "span" ->
            << [k |-> "kid", d |-> d, c |-> c, w |-> "none", len |-> 0],
               [k |-> "txt", d |-> d, c |-> c, w |-> "text", len |-> Len(kid.text)] >>
      [] kid.tag = "br" ->
            << [k |-> "kid", d |-> d, c |-> c, w |-> "inc", len |-> 0] >>
      [] OTHER ->
            << [k |-> "kid", d |-> d, c |-> c, w |-> "text", len |-> Len(kid.text)] >>

walkTop(d, n) ==
    IF n.tag = "div"
    THEN << [k |-> "top", d |-> d, c |-> 0, w |-> "inc", len |-> 0] >>
         \o Flatten([c \in 1..Len(n.kids) |-> walkKid(d, c, n.kids[c])])
    ELSE << [k |-> "top", d |-> d, c |-> 0, w |-> "text", len |-> Len(n.text)] >>

walkNodes(dom) == Flatten([d \in 1..Len(dom) |-> walkTop(d, dom[d])])

\* range.setStartAfter(node) / setEndAfter(node): the parent, past the node.
pointAfter(node) ==
    IF node.k = "top" THEN Point("root", 0, 0, node.d)
    ELSE Point("top", node.d, 0, node.c)

NotFound == [found |-> FALSE, p |-> Point("doc", 0, 0, 0)]

\* The loop of setSelection's locate (clamp = TRUE: a text node is taken when
\* targetIndex <= nextIndex, the offset clamped at 0) and of setCaretIndex
\* (clamp = FALSE: a text node is taken only when targetIndex - index >= 0).
RECURSIVE locateFrom(_, _, _, _, _)
locateFrom(nodes, i, index, targetIndex, clamp) ==
    IF i > Len(nodes) THEN NotFound
    ELSE LET node == nodes[i]
         IN  CASE node.w = "text" ->
                    IF /\ targetIndex <= index + node.len
                       /\ (clamp \/ targetIndex - index >= 0)
                    THEN [found |-> TRUE,
                          p |-> Point(node.k, node.d, node.c, Max2(0, targetIndex - index))]
                    ELSE locateFrom(nodes, i + 1, index + node.len, targetIndex, clamp)
               [] node.w = "inc" ->
                    IF targetIndex = index + 1
                    THEN [found |-> TRUE, p |-> pointAfter(node)]
                    ELSE locateFrom(nodes, i + 1, index + 1, targetIndex, clamp)
               [] OTHER -> locateFrom(nodes, i + 1, index, targetIndex, clamp)

locate(dom, targetIndex) == locateFrom(walkNodes(dom), 1, 0, targetIndex, TRUE)

\* The last text node of the editor (setSelection's SHOW_TEXT walk), if any.
lastTextPoint(dom) ==
    LET nodes == walkNodes(dom)
        texts == {i \in 1..Len(nodes) : nodes[i].w = "text"}
    IN  IF texts = {} THEN NotFound
        ELSE LET n == nodes[CHOOSE i \in texts : \A j \in texts : j <= i]
             IN  [found |-> TRUE, p |-> Point(n.k, n.d, n.c, n.len)]

\* range.setStart(p) on a range [s, e]: the end follows a start set after it.
rangeSetStart(dom, r, p) ==
    [s |-> p, e |-> IF pointRank(dom, p) > pointRank(dom, r.e) THEN p ELSE r.e]

\* range.setEnd(p): the start follows an end set before it.
rangeSetEnd(dom, r, p) ==
    [s |-> IF pointRank(dom, p) < pointRank(dom, r.s) THEN p ELSE r.s, e |-> p]

\* setSelection(startIndex, endIndex) on the rendered surface dom.
setSelection(dom, startIndex, endIndex) ==
    LET s0 == Max2(0, startIndex)
        e0 == Max2(0, endIndex)
        s == Min2(s0, e0)
        e == Max2(s0, e0)
        startPos == locate(dom, s)
        endPos == locate(dom, e)
        r0 == [s |-> Point("doc", 0, 0, 0), e |-> Point("doc", 0, 0, 0)]
        r1 == IF startPos.found THEN rangeSetStart(dom, r0, startPos.p)
              ELSE IF dom # <<>> THEN rangeSetStart(dom, r0, Point("top", 1, 0, 0))
              ELSE r0
        lastText == lastTextPoint(dom)
        r2 == IF endPos.found THEN rangeSetEnd(dom, r1, endPos.p)
              ELSE IF lastText.found THEN rangeSetEnd(dom, r1, lastText.p)
              ELSE r1
    IN  [active |-> TRUE, s |-> r2.s, e |-> r2.e]

\* setCaretIndex(targetIndex): a collapsed range where the walk finds the
\* index; when it finds none the selection stays what it was.
setCaretIndex(dom, sel, targetIndex) ==
    LET pos == locateFrom(walkNodes(dom), 1, 0, targetIndex, FALSE)
    IN  IF pos.found THEN [active |-> TRUE, s |-> pos.p, e |-> pos.p] ELSE sel

\* What textarea.innerHTML = '' leaves of the selection: a boundary point
\* inside the editor moves to the editor element, offset 0.
detachPoint(p) == IF p.k = "doc" THEN p ELSE Point("root", 0, 0, 0)

selAfterClear(sel) ==
    IF sel.active THEN [active |-> TRUE, s |-> detachPoint(sel.s), e |-> detachPoint(sel.e)]
    ELSE sel

----------------------------------------------------------------------------
\* Selected lines

\* Array.from(textarea.querySelectorAll('div')).indexOf(el), counted from 1;
\* -1 when the container has no DIV between itself and the editor.
getLineIndexForNode(dom, p) ==
    IF p.k \in {"kid", "txt"} \/ (p.k = "top" /\ dom[p.d].tag = "div")
    THEN Cardinality({j \in 1..p.d : dom[j].tag = "div"})
    ELSE -1

\* _getSelectedLineIndexes: the set of indexes from..to (empty when none).
getSelectedLineIndexes(dom, sel, selectionStart, selectionEnd) ==
    IF (\A j \in 1..Len(dom) : dom[j].tag # "div") \/ ~sel.active THEN {}
    ELSE LET startIdx0 == getLineIndexForNode(dom, sel.s)
             endIdx0 == getLineIndexForNode(dom, sel.e)
             collapsed == selectionStart = selectionEnd
             endIdx1 == IF collapsed /\ endIdx0 = -1 THEN startIdx0 ELSE endIdx0
             startIdx1 == IF collapsed THEN endIdx1 ELSE startIdx0
             startIdx == IF startIdx1 = -1 /\ endIdx1 # -1 THEN endIdx1 ELSE startIdx1
             endIdx == IF endIdx1 = -1 /\ startIdx # -1 THEN startIdx ELSE endIdx1
         IN  IF startIdx = -1 /\ endIdx = -1 THEN {}
             ELSE Min2(startIdx, endIdx)..Max2(startIdx, endIdx)

lineHasFormat(content, dom, sel, className) ==
    IF className = <<>> THEN FALSE
    ELSE LET lineIndexes ==
                 getSelectedLineIndexes(dom, sel, getCaretStartIndex(dom, sel),
                                        getCaretIndex(dom, sel))
         IN  /\ lineIndexes # {}
             /\ \A li \in lineIndexes :
                    /\ li <= Len(content)
                    /\ ClassTokens(className) \subseteq ClassTokens(content[li].lineClassName)

\* The content items with text that overlap [selectionStart, selectionEnd):
\* overlapStart < overlapEnd in hasFormat and includesClass.
overlappingItems(content, selectionStart, selectionEnd) ==
    LET overlaps(li, i) ==
            /\ ~IsBreak(content[li].items[i])
            /\ Max2(selectionStart, ItemStart(content, li, i))
               < Min2(selectionEnd,
                      ItemStart(content, li, i) + Len(content[li].items[i].content))
    IN  UNION { { <<li, i>> : i \in {j \in 1..Len(content[li].items) : overlaps(li, j)} } :
                li \in 1..Len(content) }

\* The loop of hasFormat without its seenAnyText flag.
hasFormatInUnseen(content, selectionStart, selectionEnd, className) ==
    /\ selectionStart # selectionEnd
    /\ className # <<>>
    /\ \A x \in overlappingItems(content, selectionStart, selectionEnd) :
           ClassTokens(className) \subseteq ClassTokens(content[x[1]].items[x[2]].className)

\* The loop of hasFormat over the content items: every item that overlaps
\* [selectionStart, selectionEnd) has all the tokens, and there is one.
hasFormatIn(content, selectionStart, selectionEnd, className) ==
    /\ selectionStart # selectionEnd
    /\ className # <<>>
    /\ overlappingItems(content, selectionStart, selectionEnd) # {}
    /\ \A x \in overlappingItems(content, selectionStart, selectionEnd) :
           ClassTokens(className) \subseteq ClassTokens(content[x[1]].items[x[2]].className)

\* The loop of includesClass: some item that overlaps the range has all the
\* tokens.
includesClassIn(content, selectionStart, selectionEnd, className) ==
    /\ selectionStart # selectionEnd
    /\ className # <<>>
    /\ \E x \in overlappingItems(content, selectionStart, selectionEnd) :
           ClassTokens(className) \subseteq ClassTokens(content[x[1]].items[x[2]].className)

----------------------------------------------------------------------------
\* The public operations as functions of the engine state st = [content,
\* dom, sel]: the content model, the rendered surface and the selection.

State(content, dom, sel) == [content |-> content, dom |-> dom, sel |-> sel]

selectionStartOf(st) ==
    Min2(getCaretStartIndex(st.dom, st.sel), getCaretIndex(st.dom, st.sel))

selectionEndOf(st) ==
    Max2(getCaretStartIndex(st.dom, st.sel), getCaretIndex(st.dom, st.sel))

\* this.content = updatedContent; updateDom; setSelection(start, end)
commit(updatedContent, selectionStart, selectionEnd) ==
    State(updatedContent, updateDom(updatedContent),
          setSelection(updateDom(updatedContent), selectionStart, selectionEnd))

applyFormat(st, className, styles) ==
    IF selectionStartOf(st) = selectionEndOf(st) THEN st
    ELSE commit(applyFormatLines(st.content, selectionStartOf(st), selectionEndOf(st),
                                 className, styles),
                selectionStartOf(st), selectionEndOf(st))

unapplyFormat(st, className) ==
    IF selectionStartOf(st) = selectionEndOf(st) THEN st
    ELSE commit(unapplyFormatLines(st.content, selectionStartOf(st), selectionEndOf(st),
                                   className),
                selectionStartOf(st), selectionEndOf(st))

toggleFormat(st, className, styles) ==
    IF lineHasFormat(st.content, st.dom, st.sel, className)
    THEN unapplyFormat(st, className)
    ELSE applyFormat(st, className, styles)

unapplyAllFormat(st, className) ==
    commit(unapplyAllFormatLines(st.content, className),
           getCaretStartIndex(st.dom, st.sel), getCaretIndex(st.dom, st.sel))

applyFormatOnLineLines(content, lineIndexes, className, mergedStyles) ==
    [li \in 1..Len(content) |->
        IF li \notin lineIndexes THEN content[li]
        ELSE [content[li] EXCEPT
                 !.lineClassName = canonClass(mergeClasses(@, className)),
                 !.lineStyles = IF mergedStyles # <<>> THEN spreadStyles(@, mergedStyles)
                                ELSE @]]

applyFormatOnLine(st, className, styles) ==
    IF className = <<>> THEN st
    ELSE commit(applyFormatOnLineLines(
                    st.content,
                    getSelectedLineIndexes(st.dom, st.sel,
                                           getCaretStartIndex(st.dom, st.sel),
                                           getCaretIndex(st.dom, st.sel)),
                    className, styles),
                getCaretStartIndex(st.dom, st.sel), getCaretIndex(st.dom, st.sel))

removeFormatFromLineLines(content, lineIndexes, className) ==
    [li \in 1..Len(content) |->
        IF li \notin lineIndexes THEN content[li]
        ELSE IF className = <<>>
        THEN [content[li] EXCEPT !.lineClassName = <<>>, !.lineStyles = <<>>]
        ELSE [content[li] EXCEPT
                 !.lineClassName = canonClass(removeClasses(@, className))]]

removeFormatFromLine(st, className) ==
    commit(removeFormatFromLineLines(
               st.content,
               getSelectedLineIndexes(st.dom, st.sel,
                                      getCaretStartIndex(st.dom, st.sel),
                                      getCaretIndex(st.dom, st.sel)),
               className),
           getCaretStartIndex(st.dom, st.sel), getCaretIndex(st.dom, st.sel))

\* if (this.lineHasFormat()) ...: the check is made without the class name.
toggleFormatOnLine(st, className, styles) ==
    IF lineHasFormat(st.content, st.dom, st.sel, <<>>)
    THEN removeFormatFromLine(st, className)
    ELSE applyFormatOnLine(st, className, styles)

hasFormat(st, className) ==
    hasFormatIn(st.content, selectionStartOf(st), selectionEndOf(st), className)

includesClass(st, className) ==
    includesClassIn(st.content, selectionStartOf(st), selectionEndOf(st), className)

----------------------------------------------------------------------------
\* Import and input

plainItem(text) == [content |-> text, className |-> <<>>, styles |-> <<>>]

\* handleInput's reading of one DIV: its class, its style declarations, and
\* one item per text node, SPAN or BR child; any other child is skipped.
parseLine(div) ==
    LET read == SelectSeq(div.kids, LAMBDA n : n.tag \in {"#text", "span", "br"})
    IN  [items |-> [i \in 1..Len(read) |->
                       CASE read[i].tag = "#text" -> plainItem(read[i].text)
                         [] read[i].tag = "span" ->
                              [content |-> read[i].text,
                               className |-> read[i].className,
                               styles |-> read[i].styles]
                         [] OTHER -> plainItem(<<>>)],
         lineClassName |-> div.className,
         lineStyles |-> div.styles]

\* textarea.textContent
textContent(dom) ==
    Flatten([d \in 1..Len(dom) |->
                IF dom[d].tag = "div"
                THEN Flatten([c \in 1..Len(dom[d].kids) |-> dom[d].kids[c].text])
                ELSE dom[d].text])

\* The lines handleInput reads from the surface.
parseDom(dom) ==
    LET divs == SelectSeq(dom, LAMBDA n : n.tag = "div")
    IN  IF divs = <<>> /\ textContent(dom) # <<>>
        THEN << [items |-> <<plainItem(textContent(dom))>>,
                 lineClassName |-> <<>>, lineStyles |-> <<>>] >>
        ELSE [i \in 1..Len(divs) |-> parseLine(divs[i])]

\* lastNodeType === 'br': the last child node handleInput visited is a BR.
lastNodeIsBr(dom) ==
    LET kids == Flatten([d \in 1..Len(dom) |->
                            IF dom[d].tag = "div" THEN dom[d].kids ELSE <<>>])
    IN  kids # <<>> /\ kids[Len(kids)].tag = "br"

\* handleInput on the surface dom with selection sel, as the browser left
\* them: read the model, take the caret index, render, put the caret back.
handleInput(dom, sel) ==
    LET lines == parseDom(dom)
        cursorPosition == getCaretIndex(dom, sel)
        caratIndexOffset == IF lastNodeIsBr(dom) THEN 1 ELSE 0
    IN  State(lines, updateDom(lines),
              setCaretIndex(updateDom(lines), selAfterClear(sel),
                            cursorPosition + caratIndexOffset))

\* setContentFromHTML(html), html given as the nodes the browser's parser
\* makes of it: the DIVs become the lines, or one new DIV wraps everything;
\* then handleInput, then the caret goes to the end of the content.
incomingSurface(nodes) ==
    LET incomingDivs == SelectSeq(nodes, LAMBDA n : n.tag = "div")
        lineDiv == [tag |-> "div", className |-> <<>>, styles |-> <<>>,
                    kids |-> nodes, text |-> <<>>]
    IN  IF incomingDivs # <<>> THEN incomingDivs ELSE <<lineDiv>>

setContentFromHTML(st, nodes) ==
    LET parsed == handleInput(incomingSurface(nodes), selAfterClear(st.sel))
    IN  State(parsed.content, parsed.dom,
              setCaretIndex(parsed.dom, parsed.sel, ContentLength(parsed.content)))

\* Markup.  A markup string is modelled by its elements in order, each with
\* its class attribute, the declarations of its style attribute and its text
\* as written: one token per character, a character reference for each of
\* the characters & < >.
escapeChar(ch) ==
    CASE ch = "&" -> "&amp;"
      [] ch = "<" -> "&lt;"
      [] ch = ">" -> "&gt;"
      [] OTHER -> ch

unescapeChar(token) ==
    CASE token = "&amp;" -> "&"
      [] token = "&lt;" -> "<"
      [] token = "&gt;" -> ">"
      [] OTHER -> token

escapeText(text) == [i \in 1..Len(text) |-> escapeChar(text[i])]

unescapeText(tokens) == [i \in 1..Len(tokens) |-> unescapeChar(tokens[i])]

\* textarea.innerHTML: the serialization of the surface.
innerHTML(d0) ==
    [d \in 1..Len(d0) |->
        [d0[d] EXCEPT
            !.text = escapeText(d0[d].text),
            !.kids = [c \in 1..Len(d0[d].kids) |->
                         [d0[d].kids[c] EXCEPT
                             !.text = escapeText(d0[d].kids[c].text)]]]]

\* getHTML()
getHTML(st) == innerHTML(st.dom)

\* scratch.innerHTML = html: the nodes the parser makes of markup.
parseHTML(html) ==
    [d \in 1..Len(html) |->
        [html[d] EXCEPT
            !.text = unescapeText(html[d].text),
            !.styles = styleDeclarations(html[d].styles),
            !.kids = [c \in 1..Len(html[d].kids) |->
                         [html[d].kids[c] EXCEPT
                             !.text = unescapeText(html[d].kids[c].text),
                             !.styles = styleDeclarations(html[d].kids[c].styles)]]]]

normalizeLine(line) ==
    LET texts == SelectSeq(line.items, LAMBDA it : it.type = "text")
    IN  [items |-> [i \in 1..Len(texts) |->
                       [content |-> texts[i].content,
                        className |-> texts[i].className,
                        styles |-> texts[i].styles]],
         lineClassName |-> line.lineClassName,
         lineStyles |-> line.lineStyles]

\* setContentFromJson(json) for an array json.
setContentFromJson(st, json) ==
    LET normalized == [li \in 1..Len(json) |-> normalizeLine(json[li])]
    IN  State(normalized, updateDom(normalized),
              setCaretIndex(updateDom(normalized), selAfterClear(st.sel),
                            ContentLength(normalized)))

----------------------------------------------------------------------------
\* Inputs of the operations

T(text, cls, stl) == [type |-> "text", content |-> text, className |-> cls, styles |-> stl]

L(items) == [items |-> items, lineClassName |-> <<>>, lineStyles |-> <<>>]

LA(items, cls, stl) == [items |-> items, lineClassName |-> cls, lineStyles |-> stl]

X1 == << <<"--x", "1">> >>
X2 == << <<"--x", "2">> >>

\* The arrays given to setContentFromJson.
JsonInputs ==
    { <<>>,
      << L(<<>>) >>,
      << L(<< T(<<"a", "b", "c">>, <<>>, <<>>) >>) >>,
      << LA(<< T(<<"a", "b">>, <<"bold">>, <<>>) >>, <<"bold">>, <<>>) >>,
      << L(<< T(<<"a">>, <<"bold">>, <<>>), T(<<"b">>, <<"bold">>, <<>>) >>) >>,
      << L(<< T(<<"a">>, <<"italic", "bold">>, <<>>), T(<<"b">>, <<>>, <<>>) >>) >>,
      << L(<< T(<<"a", "b">>, <<>>, <<>>) >>), L(<< T(<<"c">>, <<"italic">>, <<>>) >>) >>,
      << L(<< T(<<"a">>, <<>>, <<>>), T(<<>>, <<>>, <<>>), T(<<"b">>, <<"bold">>, X1) >>) >>,
      << LA(<< T(<<>>, <<>>, <<>>) >>, <<"align">>, X1) >>,
      << L(<< T(<<>>, <<"bold">>, <<>>), T(<<"a">>, <<>>, <<>>) >>) >>,
      << L(<< T(<<"a">>, <<"bold">>, << <<"--x", "1">>, <<"--y", "1">> >>),
              T(<<"b">>, <<"bold">>, << <<"--y", "1">>, <<"--x", "1">> >>) >>) >>,
      << L(<<>>), LA(<< T(<<"a", "b">>, <<>>, <<>>) >>, <<"align">>, <<>>) >>,
      << L(<< [type |-> "image", content |-> <<>>, className |-> <<>>, styles |-> <<>>],
              T(<<"a">>, <<"italic">>, X1) >>) >> }

Kid(tag, cls, stl, text) == [tag |-> tag, className |-> cls, styles |-> stl, text |-> text]

Div(cls, stl, kids) ==
    [tag |-> "div", className |-> cls, styles |-> stl, kids |-> kids, text |-> <<>>]

TopText(text) ==
    [tag |-> "#text", className |-> <<>>, styles |-> <<>>, kids |-> <<>>, text |-> text]

\* The markup given to setContent, as the node lists the parser makes of it.
HtmlInputs ==
    { <<>>,
      << Kid("#text", <<>>, <<>>, <<"a", "b">>) >>,
      << Kid("b", <<>>, <<>>, <<"a", "b">>) >>,
      << Div(<<>>, <<>>, << Kid("span", <<"bold">>, <<>>, <<"a">>),
                            Kid("span", <<"bold">>, <<>>, <<"b">>) >>) >>,
      << Div(<<"align">>, X1, << Kid("#text", <<>>, <<>>, <<"a">>),
                                 Kid("br", <<>>, <<>>, <<>>),
                                 Kid("span", <<"italic">>, X1, <<"b">>) >>),
         Div(<<>>, <<>>, << Kid("br", <<>>, <<>>, <<>>) >>) >> }

\* Arrays given to setContentFromJson whose styles are ordinary properties
\* and whose text holds characters that markup escapes.
CssJsonInputs ==
    { << L(<< T(<<"a">>, <<"bold">>, << <<"color", "#ff0">> >>) >>) >>,
      << L(<< T(<<"a", "b">>, <<>>, << <<"fontSize", "1">> >>) >>) >>,
      << LA(<< T(<<"a", "<", "&">>, <<"italic">>, X1) >>, <<"align">>,
            << <<"color", "red">> >>) >>,
      << L(<< T(<<"a">>, <<"bold", "italic">>, <<>>), T(<<>>, <<>>, <<>>) >>),
         L(<< T(<<"b">>, <<>>, X1), T(<<"c">>, <<>>, X2) >>) >> }

\* Markup without a DIV given to setContent.
InlineHtmlInputs ==
    { << Kid("span", <<"bold">>, <<>>, <<"a">>), Kid("#text", <<>>, <<>>, <<"b">>) >>,
      << Kid("#text", <<>>, <<>>, <<"a">>), Kid("br", <<>>, <<>>, <<>>),
         Kid("#text", <<>>, <<>>, <<"b">>) >>,
      << Kid("span", <<>>, X1, <<"a", "b">>) >>,
      << Kid("i", <<>>, <<>>, <<"a">>), Kid("#text", <<>>, <<>>, <<"b">>) >> }

\* Arguments of the formatting calls: <<className, styles>>.
FormatArgs == { << <<"bold">>, <<>> >>, << <<"italic">>, X2 >> }
UnapplyClassArgs == { <<>>, <<"italic">> }
LineFormatArgs == { << <<"align">>, <<>> >>, << <<"bold">>, X2 >> }
LineRemoveArgs == { <<>>, <<"align">> }

\* The boundary points a user's selection can have on the rendered surface:
\* any offset in a text node, and in a DIV the place before a BR.
UserPoints(d0) ==
    UNION { UNION { IF d0[d].kids[c].tag = "span"
                    THEN { Point("txt", d, c, o) : o \in 0..Len(d0[d].kids[c].text) }
                    ELSE IF d0[d].kids[c].tag = "br"
                    THEN { Point("top", d, 0, c - 1) }
                    ELSE {} :
                    c \in 1..Len(d0[d].kids) } :
            d \in 1..Len(d0) }

----------------------------------------------------------------------------
\* What the browser makes of a keystroke at the caret, before it reports the
\* edit: the new surface and the new caret.

insertAt(text, o, ch) == SubSeq(text, 1, o) \o <<ch>> \o SubSeq(text, o + 1, Len(text))

removeAt(text, o) == SubSeq(text, 1, o - 1) \o SubSeq(text, o + 1, Len(text))

caretAt(p) == [active |-> TRUE, s |-> p, e |-> p]

BrowserEdits(d0, s0) ==
    \* a character typed into the empty editor becomes a text node of it
    (IF d0 = <<>>
     THEN { State(<<>>, << TopText(<<"z">>) >>, caretAt(Point("top", 1, 0, 1))) }
     ELSE {})
    \cup
    (IF s0.active /\ s0.s = s0.e /\ s0.e.k = "txt"
     THEN LET p == s0.e
              text == d0[p.d].kids[p.c].text
          IN  \* a character typed at the caret
              { State(<<>>, [d0 EXCEPT ![p.d].kids[p.c].text = insertAt(text, p.o, "z")],
                      caretAt(Point("txt", p.d, p.c, p.o + 1))) }
              \cup
              \* Backspace inside a text of two or more characters
              (IF p.o >= 1 /\ Len(text) >= 2
               THEN { State(<<>>, [d0 EXCEPT ![p.d].kids[p.c].text = removeAt(text, p.o)],
                            caretAt(Point("txt", p.d, p.c, p.o - 1))) }
               ELSE {})
              \cup
              \* Enter at the end of a line: a new DIV holding a BR follows
              (IF p.o = Len(text) /\ p.c = Len(d0[p.d].kids)
               THEN { State(<<>>,
                            SubSeq(d0, 1, p.d)
                            \o << Div(<<>>, <<>>, << Kid("br", <<>>, <<>>, <<>>) >>) >>
                            \o SubSeq(d0, p.d + 1, Len(d0)),
                            caretAt(Point("top", p.d + 1, 0, 0))) }
               ELSE {})
     ELSE {})

----------------------------------------------------------------------------
\* Construction

\* What a page can hand to the constructor: nothing (null or undefined), a
\* value that is no element (a string, a plain object), an element that is
\* not contenteditable, a contenteditable element.
Surfaces == {"absent", "notAnElement", "notEditable", "editable"}

\* The value has an addEventListener method.
hasAddEventListener(surface) == surface \in {"notEditable", "editable"}

\* new RichTextEditor(textarea): whether it threw, whether the caller got an
\* instance, and the event handlers registered when it ended.  The first
\* statement that can fail is textarea.addEventListener('input', ...).
construct(surface) ==
    IF hasAddEventListener(surface)
    THEN [raised |-> FALSE, instance |-> TRUE,
          handlers |-> {"input", "selectionchange"}]
    ELSE [raised |-> TRUE, instance |-> FALSE, handlers |-> {}]

----------------------------------------------------------------------------
\* getJson and the objects it returns

\* A reference to a mutable object: its owner ("engine" for an object of
\* this.content, "copy" for one made by getJson), its kind, and the line
\* and item it belongs to.
Ref(owner, kind, li, i) == <<owner, kind, li, i>>

\* The value of getJson() as a tree of objects: the outer array, one array
\* for each line, one object for each item, one styles object for each item
\* that has styles and one for the styles of each line that has them; a
\* part that is absent has no reference (<<>>).
jsonTree(c, itemOwner, stylesOwner) ==
    [ref |-> Ref("copy", "content", 0, 0),
     lines |->
        [li \in 1..Len(c) |->
            [ref |-> Ref("copy", "line", li, 0),
             lineClassName |-> c[li].lineClassName,
             lineStyles |-> c[li].lineStyles,
             lineStylesRef |->
                IF c[li].lineStyles = <<>> THEN <<>>
                ELSE Ref("copy", "lineStyles", li, 0),
             items |->
                [i \in 1..Len(c[li].items) |->
                    [ref |-> Ref(itemOwner, "item", li, i),
                     content |-> c[li].items[i].content,
                     className |-> c[li].items[i].className,
                     styles |-> c[li].items[i].styles,
                     stylesRef |->
                        IF c[li].items[i].styles = <<>> THEN <<>>
                        ELSE Ref(stylesOwner, "styles", li, i)]]]]]

\* A copy that puts the items of this.content themselves into new arrays.
getJsonShallow(c) == jsonTree(c, "engine", "engine")

\* getJson(): every array and object of the result is made by the call.
getJson(c) == jsonTree(c, "copy", "copy")

\* The ways a caller can change a value it got from getJson: the object
\* written to and the part of it that is written.
Mutations(json) ==
    { [ref |-> json.ref, part |-> "lines"] }
    \cup { [ref |-> json.lines[li].ref, part |-> p] :
               li \in 1..Len(json.lines), p \in {"items", "lineClassName"} }
    \cup { [ref |-> json.lines[li].lineStylesRef, part |-> "lineStyles"] :
               li \in {k \in 1..Len(json.lines) : json.lines[k].lineStylesRef # <<>>} }
    \cup UNION { { [ref |-> json.lines[li].items[i].ref, part |-> p] :
                     i \in 1..Len(json.lines[li].items), p \in {"content", "className"} } :
                 li \in 1..Len(json.lines) }
    \cup UNION { { [ref |-> json.lines[li].items[i].stylesRef, part |-> "styles"] :
                     i \in {k \in 1..Len(json.lines[li].items) :
                               json.lines[li].items[k].stylesRef # <<>>} } :
                 li \in 1..Len(json.lines) }

\* this.content after the write m: it changes only when the object written
\* to is one of its own.
writeThrough(c, m) ==
    IF m.ref[1] # "engine" THEN c
    ELSE LET li == m.ref[3]
             i == m.ref[4]
         IN  CASE m.part = "lines" -> <<>>
               [] m.part = "items" -> [c EXCEPT ![li].items = <<>>]
               [] m.part = "lineClassName" -> [c EXCEPT ![li].lineClassName = <<"q">>]
               [] m.part = "lineStyles" ->
                     [c EXCEPT ![li].lineStyles = Append(@, <<"--q", "9">>)]
               [] m.part = "content" -> [c EXCEPT ![li].items[i].content = <<"q">>]
               [] m.part = "className" -> [c EXCEPT ![li].items[i].className = <<"q">>]
               [] OTHER -> [c EXCEPT ![li].items[i].styles = Append(@, <<"--q", "9">>)]

----------------------------------------------------------------------------
\* Events

\* The callbacks a page registers.  f returns; g throws; h calls
\* off(type, f) for the event it is invoked for, then returns.
Callbacks == {"f", "g", "h"}

EventTypes == {"change", "select"}

NoListeners == [type \in EventTypes |-> <<>>]

\* on(type, handler)
on(ls, type, handler) == [ls EXCEPT ![type] = Append(@, handler)]

\* off(event, callback): the list is replaced by a filtered copy.
off(ls, event, callback) ==
    [ls EXCEPT ![event] = SelectSeq(@, LAMBDA fn : fn # callback)]

\* What running callback fn for an event of this type does to the listeners.
afterCallback(ls, type, fn) == IF fn = "h" THEN off(ls, type, "f") ELSE ls

NothingDelivered == [calls |-> <<>>, listeners |-> NoListeners, raised |-> FALSE]

\* The loop of _emit from position i of list, the array _emit read when it
\* started; ls is this._listeners at that moment.  Each invocation is
\* recorded with its arguments and with whether fn was registered for the
\* event when it was invoked.  A callback that throws is caught and the loop
\* goes on.
RECURSIVE deliver(_, _, _, _, _)
deliver(list, i, type, args, ls) ==
    IF i > Len(list)
    THEN [NothingDelivered EXCEPT !.listeners = ls]
    ELSE LET fn == list[i]
             rest == deliver(list, i + 1, type, args, afterCallback(ls, type, fn))
         IN  [rest EXCEPT
                 !.calls = << [fn |-> fn, type |-> type, args |-> args,
                               registered |-> fn \in SeqRange(ls[type])] >> \o @]

\* The same loop without the try/catch around the callback.
RECURSIVE deliverUncaught(_, _, _, _, _)
deliverUncaught(list, i, type, args, ls) ==
    IF i > Len(list)
    THEN [NothingDelivered EXCEPT !.listeners = ls]
    ELSE LET fn == list[i]
             call == [fn |-> fn, type |-> type, args |-> args,
                      registered |-> fn \in SeqRange(ls[type])]
             rest == deliverUncaught(list, i + 1, type, args,
                                     afterCallback(ls, type, fn))
         IN  IF fn = "g"
             THEN [calls |-> <<call>>, listeners |-> ls, raised |-> TRUE]
             ELSE [rest EXCEPT !.calls = <<call>> \o @]

emitUncaught(ls, type, args) == deliverUncaught(ls[type], 1, type, args, ls)

\* _emit(type, ...args)
emit(ls, type, args) == deliver(ls[type], 1, type, args, ls)

\* The _emit calls of an operation, in order: emitted is the sequence of
\* their argument lists, all for the event of this type.
RECURSIVE emitAll(_, _, _)
emitAll(ls, type, emitted) ==
    IF emitted = <<>>
    THEN [NothingDelivered EXCEPT !.listeners = ls]
    ELSE LET first == emit(ls, type, Head(emitted))
             rest == emitAll(first.listeners, type, Tail(emitted))
         IN  [calls |-> first.calls \o rest.calls,
              listeners |-> rest.listeners,
              raised |-> first.raised \/ rest.raised]

\* A 'change' notification that carries the markup alone.
changeArgsMarkupOnly(st) == <<innerHTML(st.dom)>>

\* The arguments of a 'change' notification emitted in state st.
changeArgs(st) == <<st.content, innerHTML(st.dom)>>

\* The index units of the content: one for each line's DIV, one for a BR,
\* one for each character.
indexUnits(c) ==
    Flatten([li \in 1..Len(c) |->
                <<"">> \o Flatten([i \in 1..Len(c[li].items) |->
                                      IF IsBreak(c[li].items[i]) THEN <<"">>
                                      ELSE c[li].items[i].content])])

\* A _getPlainTextInRange that adds nothing to the index for a BR.
getPlainTextInRangeSkippingBreaks(c, selectionStart, selectionEnd) ==
    LET lo == IF selectionStart > selectionEnd THEN selectionEnd ELSE selectionStart
        hi == IF selectionStart > selectionEnd THEN selectionStart ELSE selectionEnd
        units == Flatten([li \in 1..Len(c) |->
                    <<"">> \o Flatten([i \in 1..Len(c[li].items) |->
                                          c[li].items[i].content])])
    IN  Flatten([n \in 1..Len(units) |->
                    IF lo <= n - 1 /\ n - 1 < hi /\ units[n] # ""
                    THEN <<units[n]>> ELSE <<>>])

\* _getPlainTextInRange(selectionStart, selectionEnd)
getPlainTextInRange(c, selectionStart, selectionEnd) ==
    LET lo == IF selectionStart > selectionEnd THEN selectionEnd ELSE selectionStart
        hi == IF selectionStart > selectionEnd THEN selectionStart ELSE selectionEnd
        units == indexUnits(c)
    IN  Flatten([n \in 1..Len(units) |->
                    IF lo <= n - 1 /\ n - 1 < hi /\ units[n] # ""
                    THEN <<units[n]>> ELSE <<>>])

\* textarea.contains(node) for the container of a boundary point.
inEditor(p) == p.k # "doc"

\* A handler that returns before the _emit call when the range is the one
\* of the report before.
onSelectionChangeOnce(st, last) ==
    LET start == getCaretStartIndex(st.dom, st.sel)
        end == getCaretIndex(st.dom, st.sel)
    IN  IF \/ ~st.sel.active
           \/ (~inEditor(st.sel.s) /\ ~inEditor(st.sel.e))
           \/ last = <<start, end>>
        THEN [emitted |-> <<>>, lastSelection |-> last]
        ELSE [emitted |-> << << <<start, end>>,
                               getPlainTextInRange(st.content, start, end) >> >>,
              lastSelection |-> <<start, end>>]

\* _onSelectionChange(): the 'select' notifications it emits, and
\* this._lastSelection after it.
onSelectionChange(st, last) ==
    LET start == getCaretStartIndex(st.dom, st.sel)
        end == getCaretIndex(st.dom, st.sel)
    IN  IF ~st.sel.active \/ (~inEditor(st.sel.s) /\ ~inEditor(st.sel.e))
        THEN [emitted |-> <<>>, lastSelection |-> last]
        ELSE [emitted |-> << << <<start, end>>,
                               getPlainTextInRange(st.content, start, end) >> >>,
              lastSelection |-> <<start, end>>]

\* The 'change' notifications of each operation: none on the paths that
\* return before the _emit call.
\* An applyFormat that reaches its _emit call whatever the selection.
applyFormatEmittedAlways(st, className, styles) ==
    <<changeArgs(applyFormat(st, className, styles))>>

applyFormatEmitted(st, className, styles) ==
    IF selectionStartOf(st) = selectionEndOf(st) THEN <<>>
    ELSE <<changeArgs(applyFormat(st, className, styles))>>

unapplyFormatEmitted(st, className) ==
    IF selectionStartOf(st) = selectionEndOf(st) THEN <<>>
    ELSE <<changeArgs(unapplyFormat(st, className))>>

toggleFormatEmitted(st, className, styles) ==
    IF lineHasFormat(st.content, st.dom, st.sel, className)
    THEN unapplyFormatEmitted(st, className)
    ELSE applyFormatEmitted(st, className, styles)

unapplyAllFormatEmitted(st, className) ==
    <<changeArgs(unapplyAllFormat(st, className))>>

applyFormatOnLineEmitted(st, className, styles) ==
    IF className = <<>> THEN <<>>
    ELSE <<changeArgs(applyFormatOnLine(st, className, styles))>>

removeFormatFromLineEmitted(st, className) ==
    <<changeArgs(removeFormatFromLine(st, className))>>

toggleFormatOnLineEmitted(st, className, styles) ==
    IF lineHasFormat(st.content, st.dom, st.sel, <<>>)
    THEN removeFormatFromLineEmitted(st, className)
    ELSE applyFormatOnLineEmitted(st, className, styles)

handleInputEmitted(d0, s0) == <<changeArgs(handleInput(d0, s0))>>

\* setContentFromHTML emits through handleInput, before it moves the caret.
setContentFromHTMLEmitted(st, nodes) ==
    handleInputEmitted(incomingSurface(nodes), selAfterClear(st.sel))

setContentFromJsonEmitted(st, json) == <<changeArgs(setContentFromJson(st, json))>>

\* The state in which setContentFromHTML emits: the one handleInput leaves,
\* the caret not yet moved to the end.
setContentFromHTMLSeen(st, nodes) ==
    handleInput(incomingSurface(nodes), selAfterClear(st.sel))

\* The invocations calls, each with the caret index the callback reads from
\* getCaretIndex() in the state seen, the one the editor is in when it emits.
seenBy(calls, seen) ==
    [i \in 1..Len(calls) |->
        [fn |-> calls[i].fn, type |-> calls[i].type, args |-> calls[i].args,
         registered |-> calls[i].registered,
         caret |-> getCaretIndex(seen.dom, seen.sel)]]

----------------------------------------------------------------------------
\* The earlier class (src/unnamed/part_001): a flat model of spans and the
\* input handler that rebuilds it from the plain text of the element

\* A span of this.model: { text, <format>: true, ... }. fmt is the set of
\* its keys other than text.
Span(text, fmt) == [text |-> text, fmt |-> fmt]

\* this.model = [{ text: '' }] of the constructor
EmptyModel == <<Span(<<>>, {})>>

\* String.prototype.substr(start, length), start counted from 0
substr(text, start, length) ==
    SubSeq(text, start + 1, Min2(Len(text), start + length))

\* innerText.replace(/\r?\n$/, '')
removeTrailingNewline(innerText) ==
    IF innerText # <<>> /\ innerText[Len(innerText)] = "\n"
    THEN SubSeq(innerText, 1, Len(innerText) - 1)
    ELSE innerText

\* The for loop that counts matchLen: the length of the longest common
\* prefix of a[from + 1 ..] and b[at + 1 ..].
matchLength(a, from, b, at) ==
    LET most == Min2(Len(a) - from, Len(b) - at)
        agree(k) == \A j \in 1..k : a[from + j] = b[at + j]
    IN  IF most <= 0 THEN 0
        ELSE CHOOSE k \in 0..most :
                 agree(k) /\ (k = most \/ ~agree(k + 1))

\* text.split(/(\n)/) without its empty pieces
RECURSIVE splitAtNewlines(_)
splitAtNewlines(text) ==
    IF text = <<>> THEN <<>>
    ELSE IF Head(text) = "\n"
         THEN << <<"\n">> >> \o splitAtNewlines(Tail(text))
         ELSE LET stops == {i \in 1..Len(text) : text[i] = "\n"}
                  n == IF stops = {} THEN Len(text)
                       ELSE (CHOOSE i \in stops : \A j \in stops : i <= j) - 1
              IN  <<SubSeq(text, 1, n)>>
                  \o splitAtNewlines(SubSeq(text, n + 1, Len(text)))

\* "Split at line breaks": a span that holds a newline becomes its pieces,
\* the newline pieces as { text: '\n' } without formats.
splitSpan(span) ==
    IF "\n" \in SeqRange(span.text)
    THEN LET pieces == splitAtNewlines(span.text)
         IN  [i \in 1..Len(pieces) |->
                 IF pieces[i] = <<"\n">> THEN Span(<<"\n">>, {})
                 ELSE Span(pieces[i], span.fmt)]
    ELSE <<span>>

\* The end of both definitions: split, filter, [{ text: '' }] if nothing
\* is left.
splitModel(newModel) ==
    LET split == Flatten([i \in 1..Len(newModel) |-> splitSpan(newModel[i])])
        kept == SelectSeq(split, LAMBDA s : s.text # <<>>)
    IN  IF kept = <<>> THEN EmptyModel ELSE kept

\* The variables of the while loop of _updateModelFromDOM; oldSpanIdx counts
\* from 0 as in the source.
Walk(textPos, oldSpanIdx, oldSpanOffset, newModel) ==
    [textPos |-> textPos, oldSpanIdx |-> oldSpanIdx,
     oldSpanOffset |-> oldSpanOffset, newModel |-> newModel]

\* An iteration that, where the old span and the text differ, passes over
\* one character of the old span and takes none of the text.
reconcileStepSkippingOld(oldModel, text, w) ==
    IF w.oldSpanIdx < Len(oldModel)
    THEN LET span == oldModel[w.oldSpanIdx + 1]
             matchLen == matchLength(span.text, w.oldSpanOffset, text, w.textPos)
             consumed == w.oldSpanOffset + Max2(matchLen, 1) >= Len(span.text)
         IN  Walk(w.textPos + matchLen,
                  IF consumed THEN w.oldSpanIdx + 1 ELSE w.oldSpanIdx,
                  IF consumed THEN 0 ELSE w.oldSpanOffset + Max2(matchLen, 1),
                  IF matchLen > 0
                  THEN Append(w.newModel,
                              Span(substr(text, w.textPos, matchLen), span.fmt))
                  ELSE w.newModel)
    ELSE Walk(w.textPos + 1, w.oldSpanIdx, w.oldSpanOffset,
              Append(w.newModel,
                     Span(<<text[w.textPos + 1]>>,
                          IF oldModel = <<>> THEN {}
                          ELSE oldModel[Len(oldModel)].fmt)))

\* One iteration of the while loop of the later definition of
\* _updateModelFromDOM, entered with textPos < text.length: the loop
\* variables after it.
reconcileStep(oldModel, text, w) ==
    IF w.oldSpanIdx < Len(oldModel)
    THEN LET span == oldModel[w.oldSpanIdx + 1]
             matchLen == matchLength(span.text, w.oldSpanOffset, text, w.textPos)
             nextSpanIdx == w.oldSpanIdx + 1
             hasNext == nextSpanIdx < Len(oldModel)
             nextSpanText == oldModel[nextSpanIdx + 1].text
             found == {i \in 0..(Len(text) - w.textPos - Len(nextSpanText) + 1) :
                          substr(text, w.textPos + i, Len(nextSpanText))
                              = nextSpanText}
             insertEnd ==
                 IF hasNext /\ found # {}
                 THEN w.textPos + (CHOOSE i \in found : \A j \in found : i <= j)
                 ELSE Len(text)
             inserted ==
                 IF insertEnd > w.textPos
                 THEN <<Span(SubSeq(text, w.textPos + 1, insertEnd), span.fmt)>>
                 ELSE <<>>
             resumes ==
                 hasNext /\ substr(text, insertEnd, Len(nextSpanText))
                                = nextSpanText
         IN  IF matchLen > 0
             THEN LET consumed == w.oldSpanOffset + matchLen >= Len(span.text)
                  IN  Walk(w.textPos + matchLen,
                           IF consumed THEN w.oldSpanIdx + 1 ELSE w.oldSpanIdx,
                           IF consumed THEN 0 ELSE w.oldSpanOffset + matchLen,
                           Append(w.newModel,
                                  Span(substr(text, w.textPos, matchLen), span.fmt)))
             ELSE Walk(insertEnd,
                       IF resumes THEN nextSpanIdx ELSE w.oldSpanIdx,
                       IF resumes THEN 0 ELSE w.oldSpanOffset,
                       w.newModel \o inserted)
    ELSE Walk(w.textPos + 1, w.oldSpanIdx, w.oldSpanOffset,
              Append(w.newModel,
                     Span(<<text[w.textPos + 1]>>,
                          IF oldModel = <<>> THEN {}
                          ELSE oldModel[Len(oldModel)].fmt)))

\* The while loop of the later definition of _updateModelFromDOM, from the
\* position (textPos, oldSpanIdx, oldSpanOffset) on.
RECURSIVE reconcileFrom(_, _, _, _, _, _)
reconcileFrom(oldModel, text, textPos, oldSpanIdx, oldSpanOffset, newModel) ==
    IF textPos >= Len(text) THEN newModel
    ELSE LET w == reconcileStep(oldModel, text,
                      Walk(textPos, oldSpanIdx, oldSpanOffset, newModel))
         IN  reconcileFrom(oldModel, text, w.textPos, w.oldSpanIdx,
                           w.oldSpanOffset, w.newModel)

\* _updateModelFromDOM, the later of the two definitions in the class body,
\* as a function of this.model and this.el.innerText; the result is the new
\* this.model.
updateModelFromDOM(oldModel, innerText) ==
    splitModel(reconcileFrom(oldModel, removeTrailingNewline(innerText),
                             0, 0, 0, <<>>))

\* One iteration of the while loop of the earlier definition of
\* _updateModelFromDOM, entered with idx < text.length; textPos stands for
\* its idx, and it has no oldSpanOffset.
reconcileFirstStep(oldModel, text, w) ==
    IF w.oldSpanIdx < Len(oldModel)
    THEN LET idx == w.textPos
             span == oldModel[w.oldSpanIdx + 1]
             matchLen == matchLength(span.text, 0, text, idx)
             matches == {j \in (idx + 1)..Len(text) :
                            LET sub == substr(text, j, Len(span.text))
                            IN  /\ sub # <<>>
                                /\ sub = SubSeq(span.text, 1, Len(sub))}
             nextMatchIdx ==
                 IF matches = {} THEN -1
                 ELSE CHOOSE j \in matches : \A k \in matches : j <= k
             newText == SubSeq(text, idx + 1,
                               IF nextMatchIdx = -1 THEN Len(text)
                               ELSE nextMatchIdx)
             fmtSpan == IF w.oldSpanIdx > 0 THEN oldModel[w.oldSpanIdx] ELSE span
         IN  IF matchLen > 0
             THEN Walk(idx + matchLen, w.oldSpanIdx + 1, 0,
                       Append(w.newModel,
                              Span(substr(text, idx, matchLen), span.fmt)))
             ELSE Walk(idx + Len(newText), w.oldSpanIdx, 0,
                       Append(w.newModel, Span(newText, fmtSpan.fmt)))
    ELSE Walk(w.textPos + 1, w.oldSpanIdx, 0,
              Append(w.newModel,
                     Span(<<text[w.textPos + 1]>>,
                          IF oldModel = <<>> THEN {}
                          ELSE oldModel[Len(oldModel)].fmt)))

\* The while loop of the earlier definition of _updateModelFromDOM.
RECURSIVE reconcileFirstFrom(_, _, _, _, _)
reconcileFirstFrom(oldModel, text, idx, oldSpanIdx, newModel) ==
    IF idx >= Len(text) THEN newModel
    ELSE LET w == reconcileFirstStep(oldModel, text,
                      Walk(idx, oldSpanIdx, 0, newModel))
         IN  reconcileFirstFrom(oldModel, text, w.textPos, w.oldSpanIdx,
                                w.newModel)

\* The earlier definition of _updateModelFromDOM, which the later one
\* replaces.
updateModelFromDOMFirst(oldModel, innerText) ==
    splitModel(reconcileFirstFrom(oldModel, removeTrailingNewline(innerText),
                                  0, 0, <<>>))

\* _mergeSpans: adjacent spans with the same keys become one when both have
\* text; spans without text are dropped.
RECURSIVE mergeSpansFrom(_, _, _)
mergeSpansFrom(spans, i, merged) ==
    IF i > Len(spans) THEN merged
    ELSE LET prev == merged[Len(merged)]
             curr == spans[i]
         IN  mergeSpansFrom(spans, i + 1,
                 IF prev.text # <<>> /\ curr.text # <<>> /\ prev.fmt = curr.fmt
                 THEN [merged EXCEPT ![Len(merged)].text = prev.text \o curr.text]
                 ELSE Append(merged, curr))

mergeSpans(spans) ==
    IF spans = <<>> THEN EmptyModel
    ELSE SelectSeq(mergeSpansFrom(spans, 2, <<spans[1]>>),
                   LAMBDA s : s.text # <<>>)

\* The 'input' listener of _bindEvents: the model it leaves.
onInput(oldModel, innerText) ==
    mergeSpans(updateModelFromDOM(oldModel, innerText))

\* setContent of the earlier class on markup whose nodes are text nodes and
\* SPANs with text children only: walk, the filter, [{ text: '' }] if
\* nothing is left. A node is a Kid; its className is the SPAN's class list.
walk(node) ==
    IF node.tag = "span"
    THEN splitSpan(Span(node.text, SeqRange(node.className)))
    ELSE splitSpan(Span(node.text, {}))

setContent(nodes) ==
    LET spans == Flatten([i \in 1..Len(nodes) |-> walk(nodes[i])])
        kept == SelectSeq(spans, LAMBDA s : s.text # <<>>)
    IN  IF kept = <<>> THEN EmptyModel ELSE kept

\* _render of the earlier class: the child nodes of this.el, a BR for a
\* span whose text is a newline, a SPAN with one text node for any other,
\* a lone BR when the markup comes out empty.
render(m) ==
    IF m = <<>> THEN <<[tag |-> "br", text |-> <<>>]>>
    ELSE [i \in 1..Len(m) |->
             IF m[i].text = <<"\n">> THEN [tag |-> "br", text |-> <<>>]
             ELSE [tag |-> "span", text |-> m[i].text]]

\* A boundary point in the text node of the child at position node.
TextPoint(node, offset) == [node |-> node, offset |-> offset]

\* window.getSelection() with no range
NoRange == [start |-> <<>>, end |-> <<>>]

\* _getOffsetFromNode for a point in a text node: the lengths of the text
\* nodes before it plus the offset; an element without text adds nothing.
getOffsetFromNode(nodes, point) ==
    SeqSum([i \in 1..(point.node - 1) |-> Len(nodes[i].text)]) + point.offset

\* _getSelectionOffsets of the earlier class: <<start, end>>, <<>> for null
getSelectionOffsets(nodes, range) ==
    IF range = NoRange THEN <<>>
    ELSE LET start == getOffsetFromNode(nodes, range.start)
             end == getOffsetFromNode(nodes, range.end)
         IN  IF start > end THEN <<end, start>> ELSE <<start, end>>

\* The for loop of listFormattingOnSelected from span i on, idx the sum of
\* the text lengths before it.
RECURSIVE listFormattingFrom(_, _, _, _, _)
listFormattingFrom(m, i, idx, start, end) ==
    IF i > Len(m) THEN <<>>
    ELSE LET spanStart == idx
             spanEnd == idx + Len(m[i].text)
             selStart == Max2(start, spanStart)
             selEnd == Min2(end, spanEnd)
             fmt == IF ~(spanEnd <= start \/ spanStart >= end)
                       /\ selEnd > selStart
                    THEN <<m[i].fmt>> ELSE <<>>
         IN  fmt \o listFormattingFrom(m, i + 1, spanEnd, start, end)

\* listFormattingOnSelected of the earlier class, on the model m as
\* rendered and the range the selection has.
listFormattingOnSelected(m, range) ==
    LET offsets == getSelectionOffsets(render(m), range)
    IN  IF offsets = <<>> THEN <<>>
        ELSE IF offsets[1] = offsets[2] THEN <<>>
        ELSE listFormattingFrom(m, 1, 0, offsets[1], offsets[2])

----------------------------------------------------------------------------
\* The state machine

VARIABLES
    content,    \* this.content
    dom,        \* the child nodes of this.textarea
    sel,        \* window.getSelection(): its range, if it has one
    hist,       \* the last two operations called since the user last changed
                \* the selection, each with its arguments, the selection it
                \* read and the content it found
    nops,       \* events since construction
    listeners,  \* this._listeners: for each event, the callbacks in order
    lastSelection,  \* this._lastSelection: <<start, end>>, <<>> before any
    delivered,  \* the callback invocations of the last step, in order
    raised,     \* whether the last step threw to its caller
    model       \* this.model of the earlier class

vars == <<content, dom, sel, hist, nops, listeners, lastSelection, delivered,
          raised, model>>

Init ==
    /\ content = <<>>
    /\ dom = <<>>
    /\ sel = NoSel
    /\ hist = <<>>
    /\ nops = 0
    /\ listeners = NoListeners
    /\ lastSelection = <<>>
    /\ delivered = <<>>
    /\ raised = FALSE
    /\ model = EmptyModel

Cur == State(content, dom, sel)

Call(name, cls, stl) ==
    [name |-> name, className |-> cls, styles |-> stl,
     start |-> getCaretStartIndex(dom, sel), end |-> getCaretIndex(dom, sel),
     before |-> content, selBefore |-> sel, arg |-> <<>>,
     listenersBefore |-> listeners]

Becomes(st) ==
    /\ content' = st.content
    /\ dom' = st.dom
    /\ sel' = st.sel

\* A step that invokes no callback.
Quiet ==
    /\ delivered' = <<>>
    /\ raised' = FALSE
    /\ UNCHANGED <<listeners, lastSelection, model>>

\* A step whose 'change' notifications have the argument lists emitted and
\* are emitted in the state seen.
Notify(emitted, seen) ==
    LET r == emitAll(listeners, "change", emitted)
    IN  /\ listeners' = r.listeners
        /\ delivered' = seenBy(r.calls, seen)
        /\ raised' = r.raised
        /\ UNCHANGED <<lastSelection, model>>

\* A call of a public operation that works on the content it finds and
\* emits in the state seen.
OperationSeen(name, cls, stl, st, emitted, seen) ==
    /\ nops < MaxOps
    /\ Becomes(st)
    /\ Notify(emitted, seen)
    /\ hist' = Append(IF hist = <<>> THEN <<>> ELSE <<hist[Len(hist)]>>,
                       Call(name, cls, stl))
    /\ nops' = nops + 1

\* A call of a public operation whose _emit is its last statement.
Operation(name, cls, stl, st, emitted) ==
    OperationSeen(name, cls, stl, st, emitted, st)

\* A call of a public operation that replaces the content; arg is what it
\* was given.
ImportSeen(name, arg, st, emitted, seen) ==
    /\ nops < MaxOps
    /\ Becomes(st)
    /\ Notify(emitted, seen)
    /\ hist' = << [Call(name, <<>>, <<>>) EXCEPT !.before = <<>>, !.arg = arg] >>
    /\ nops' = nops + 1

Import(name, arg, st, emitted) == ImportSeen(name, arg, st, emitted, st)

\* The user selects a range on the surface, or puts the caret somewhere.
UserSelect ==
    /\ nops < MaxOps
    /\ \E s \in UserPoints(dom), e \in UserPoints(dom) :
        /\ pointRank(dom, s) <= pointRank(dom, e)
        /\ sel' = [active |-> TRUE, s |-> s, e |-> e]
    /\ hist' = <<>>
    /\ nops' = nops + 1
    /\ Quiet
    /\ UNCHANGED <<content, dom>>

\* The selection leaves the editor: to another part of the page, or away.
UserDeselect ==
    /\ nops < MaxOps
    /\ \E r \in {NoSel, caretAt(Point("doc", 0, 0, 0))} : sel' = r
    /\ hist' = <<>>
    /\ nops' = nops + 1
    /\ Quiet
    /\ UNCHANGED <<content, dom>>

ApplyFormat ==
    \E a \in FormatArgs :
        Operation("applyFormat", a[1], a[2], applyFormat(Cur, a[1], a[2]),
                  applyFormatEmitted(Cur, a[1], a[2]))

UnapplyFormat ==
    \E cls \in UnapplyClassArgs :
        Operation("unapplyFormat", cls, <<>>, unapplyFormat(Cur, cls),
                  unapplyFormatEmitted(Cur, cls))

ToggleFormat ==
    \E a \in FormatArgs :
        Operation("toggleFormat", a[1], a[2], toggleFormat(Cur, a[1], a[2]),
                  toggleFormatEmitted(Cur, a[1], a[2]))

UnapplyAllFormat ==
    \E cls \in UnapplyClassArgs :
        Operation("unapplyAllFormat", cls, <<>>, unapplyAllFormat(Cur, cls),
                  unapplyAllFormatEmitted(Cur, cls))

ApplyFormatOnLine ==
    \E a \in LineFormatArgs :
        Operation("applyFormatOnLine", a[1], a[2], applyFormatOnLine(Cur, a[1], a[2]),
                  applyFormatOnLineEmitted(Cur, a[1], a[2]))

RemoveFormatFromLine ==
    \E cls \in LineRemoveArgs :
        Operation("removeFormatFromLine", cls, <<>>, removeFormatFromLine(Cur, cls),
                  removeFormatFromLineEmitted(Cur, cls))

ToggleFormatOnLine ==
    \E a \in LineFormatArgs :
        Operation("toggleFormatOnLine", a[1], a[2], toggleFormatOnLine(Cur, a[1], a[2]),
                  toggleFormatOnLineEmitted(Cur, a[1], a[2]))

\* The browser reports an edit: handleInput runs on what the edit left.
InputEdit ==
    \E ed \in BrowserEdits(dom, sel) :
        Operation("handleInput", <<>>, <<>>, handleInput(ed.dom, ed.sel),
                  handleInputEmitted(ed.dom, ed.sel))

SetContent ==
    \E nodes \in HtmlInputs :
        ImportSeen("setContent", nodes, setContentFromHTML(Cur, nodes),
                   setContentFromHTMLEmitted(Cur, nodes),
                   setContentFromHTMLSeen(Cur, nodes))

SetContentFromJson ==
    \E json \in JsonInputs :
        Import("setContentFromJson", json, setContentFromJson(Cur, json),
               setContentFromJsonEmitted(Cur, json))

Next ==
    \/ UserSelect
    \/ UserDeselect
    \/ ApplyFormat
    \/ UnapplyFormat
    \/ ToggleFormat
    \/ UnapplyAllFormat
    \/ ApplyFormatOnLine
    \/ RemoveFormatFromLine
    \/ ToggleFormatOnLine
    \/ InputEdit
    \/ SetContent
    \/ SetContentFromJson

Spec == Init /\ [][Next]_vars

----------------------------------------------------------------------------
\* The selection methods and the queries, called by the page on loaded
\* content.

\* A call of setCaretIndex or setSelection: its arguments, and the selection
\* it found.
IndexCall(name, startIndex, endIndex) ==
    [name |-> name, startIndex |-> startIndex, endIndex |-> endIndex,
     selBefore |-> sel, before |-> content]

IndexArgs(d0) == (0 - MaxBeyond)..(DomLength(d0) + MaxBeyond)

SetCaretIndex ==
    /\ nops < MaxOps
    /\ \E i \in IndexArgs(dom) :
           /\ sel' = setCaretIndex(dom, sel, i)
           /\ hist' = <<IndexCall("setCaretIndex", i, i)>>
    /\ nops' = nops + 1
    /\ Quiet
    /\ UNCHANGED <<content, dom>>

SetSelection ==
    /\ nops < MaxOps
    /\ \E i \in IndexArgs(dom), j \in IndexArgs(dom) :
           /\ sel' = setSelection(dom, i, j)
           /\ hist' = <<IndexCall("setSelection", i, j)>>
    /\ nops' = nops + 1
    /\ Quiet
    /\ UNCHANGED <<content, dom>>

\* A call of a query: its argument, the selection it read, its result.
QueryCall(name, cls, result) ==
    [name |-> name, className |-> cls,
     start |-> getCaretStartIndex(dom, sel), end |-> getCaretIndex(dom, sel),
     before |-> content, result |-> result]

Query(name, cls, result) ==
    /\ nops < MaxOps
    /\ hist' = <<QueryCall(name, cls, result)>>
    /\ nops' = nops + 1
    /\ Quiet
    /\ UNCHANGED <<content, dom, sel>>

ClassQueryArgs == { <<"bold">>, <<"italic">>, <<"bold", "italic">> }

HasFormat ==
    \E cls \in ClassQueryArgs : Query("hasFormat", cls, hasFormat(Cur, cls))

IncludesClass ==
    \E cls \in ClassQueryArgs : Query("includesClass", cls, includesClass(Cur, cls))

LineQueryArgs == { <<"align">>, <<"bold">> }

LineHasFormat ==
    \E cls \in LineQueryArgs :
        Query("lineHasFormat", cls, lineHasFormat(content, dom, sel, cls))

SurfaceNext ==
    \/ SetContent
    \/ SetContentFromJson
    \/ UserSelect
    \/ UserDeselect
    \/ SetCaretIndex
    \/ SetSelection
    \/ HasFormat
    \/ IncludesClass
    \/ LineHasFormat

SurfaceSpec == Init /\ [][SurfaceNext]_vars

----------------------------------------------------------------------------
\* Import and export of markup

SetContentFromCssJson ==
    \E json \in CssJsonInputs :
        Import("setContentFromJson", json, setContentFromJson(Cur, json),
               setContentFromJsonEmitted(Cur, json))

SetContentInline ==
    \E nodes \in InlineHtmlInputs :
        ImportSeen("setContent", nodes, setContentFromHTML(Cur, nodes),
                   setContentFromHTMLEmitted(Cur, nodes),
                   setContentFromHTMLSeen(Cur, nodes))

\* setContent(getHTML()): the editor is given its own markup.
SetContentOwnMarkup ==
    OperationSeen("setContent", <<>>, <<>>,
                  setContentFromHTML(Cur, parseHTML(getHTML(Cur))),
                  setContentFromHTMLEmitted(Cur, parseHTML(getHTML(Cur))),
                  setContentFromHTMLSeen(Cur, parseHTML(getHTML(Cur))))

\* The page calls getJson() and changes a part of the value it got.
GetJsonAndMutate ==
    /\ nops < MaxOps
    /\ \E m \in Mutations(getJson(content)) :
           /\ content' = writeThrough(content, m)
           /\ hist' = << [Call("getJson", <<>>, <<>>) EXCEPT !.arg = m] >>
    /\ nops' = nops + 1
    /\ Quiet
    /\ UNCHANGED <<dom, sel>>

CodecNext ==
    \/ SetContent
    \/ SetContentInline
    \/ SetContentFromJson
    \/ SetContentFromCssJson
    \/ SetContentOwnMarkup
    \/ GetJsonAndMutate

CodecSpec == Init /\ [][CodecNext]_vars

----------------------------------------------------------------------------
\* Construction on any surface

\* The state after new RichTextEditor(surface), the call recorded with its
\* outcome.
ConstructInit ==
    /\ content = <<>>
    /\ dom = <<>>
    /\ sel = NoSel
    /\ \E surface \in Surfaces :
           hist = << [name |-> "constructor", arg |-> surface,
                      result |-> construct(surface)] >>
    /\ nops = 0
    /\ listeners = NoListeners
    /\ lastSelection = <<>>
    /\ delivered = <<>>
    /\ raised = FALSE
    /\ model = EmptyModel

\* There is an instance to call.
Constructed ==
    IF hist # <<>> /\ hist[1].name = "constructor"
    THEN hist[1].result.instance
    ELSE TRUE

ConstructNext == Constructed /\ CodecNext

ConstructSpec == ConstructInit /\ [][ConstructNext]_vars

----------------------------------------------------------------------------
\* Listeners and notifications

\* The calls of on and off: <<event, callback>>.
ListenerArgs ==
    { <<"change", "f">>, <<"change", "g">>, <<"change", "h">>, <<"select", "f">> }

\* The page registers a callback.
On ==
    /\ nops < MaxOps
    /\ \E a \in ListenerArgs : listeners' = on(listeners, a[1], a[2])
    /\ delivered' = <<>>
    /\ raised' = FALSE
    /\ hist' = <<>>
    /\ nops' = nops + 1
    /\ UNCHANGED <<content, dom, sel, lastSelection, model>>

\* The page removes a callback.
Off ==
    /\ nops < MaxOps
    /\ \E a \in ListenerArgs :
           /\ a[2] \in SeqRange(listeners[a[1]])
           /\ listeners' = off(listeners, a[1], a[2])
    /\ delivered' = <<>>
    /\ raised' = FALSE
    /\ hist' = <<>>
    /\ nops' = nops + 1
    /\ UNCHANGED <<content, dom, sel, lastSelection, model>>

\* The document reports a selectionchange event: _onSelectionChange runs on
\* the selection as it is.
SelectionChange ==
    /\ nops < MaxOps
    /\ LET r == onSelectionChange(Cur, lastSelection)
           d == emitAll(listeners, "select", r.emitted)
       IN  /\ listeners' = d.listeners
           /\ delivered' = seenBy(d.calls, Cur)
           /\ raised' = d.raised
           /\ lastSelection' = r.lastSelection
    /\ hist' = Append(IF hist = <<>> THEN <<>> ELSE <<hist[Len(hist)]>>,
                       Call("selectionchange", <<>>, <<>>))
    /\ nops' = nops + 1
    /\ UNCHANGED <<content, dom, sel, model>>

EventNext ==
    \/ On
    \/ Off
    \/ SelectionChange
    \/ UserSelect
    \/ UserDeselect
    \/ ApplyFormat
    \/ UnapplyFormat
    \/ ToggleFormat
    \/ UnapplyAllFormat
    \/ ApplyFormatOnLine
    \/ RemoveFormatFromLine
    \/ ToggleFormatOnLine
    \/ InputEdit
    \/ SetContent
    \/ SetContentFromJson

EventSpec == Init /\ [][EventNext]_vars

----------------------------------------------------------------------------
\* The earlier class under input: markup set by the page, then the plain
\* text the element reports after each edit of the user

\* The characters of the plain texts, the newline among them.
TextChars == {"a", "b", "z", "\n"}

\* this.el.innerText after an edit: any text of up to MaxText characters.
InnerTexts == UNION {[1..n -> TextChars] : n \in 0..MaxText}

\* Markup for setContent of the earlier class: formatted spans and text.
SpanMarkupInputs ==
    { << Kid("span", <<"bold">>, <<>>, <<"a">>),
         Kid("span", <<"italic">>, <<>>, <<"b">>) >>,
      << Kid("span", <<"bold">>, <<>>, <<"a">>),
         Kid("#text", <<>>, <<>>, <<"b">>) >>,
      << Kid("#text", <<>>, <<>>, <<"a">>),
         Kid("span", <<"bold">>, <<>>, <<"b">>) >>,
      << Kid("span", <<"bold">>, <<>>, <<"a">>),
         Kid("#text", <<>>, <<>>, <<"\n">>) >>,
      << Kid("span", <<"bold">>, <<>>, <<"a">>),
         Kid("#text", <<>>, <<>>, <<"\n">>),
         Kid("span", <<"italic">>, <<>>, <<"b">>) >>,
      << Kid("span", <<"bold">>, <<>>, <<"a", "b">>) >> }

\* The page calls setContent of the earlier class.
SetContentSpans ==
    /\ nops < MaxEdits
    /\ \E nodes \in SpanMarkupInputs :
           /\ model' = setContent(nodes)
           /\ hist' = <<[name |-> "setContent", arg |-> nodes]>>
    /\ nops' = nops + 1
    /\ UNCHANGED <<content, dom, sel, listeners, lastSelection,
                   delivered, raised>>

\* The user edits the element of the earlier class: its 'input' listener
\* runs on the plain text the element now has.
Input ==
    /\ nops < MaxEdits
    /\ \E innerText \in InnerTexts :
           /\ model' = onInput(model, innerText)
           /\ hist' = <<[name |-> "input", oldModel |-> model,
                         innerText |-> innerText]>>
    /\ nops' = nops + 1
    /\ UNCHANGED <<content, dom, sel, listeners, lastSelection,
                   delivered, raised>>

\* The ranges the user can select in the rendered model: from a point in
\* a text node to a point in a text node at or after it.
TextRanges(nodes) ==
    LET points == {TextPoint(i, o) : i \in 1..Len(nodes), o \in 0..MaxText}
        valid == {p \in points : /\ nodes[p.node].tag = "span"
                                  /\ nodes[p.node].text # <<>>
                                  /\ p.offset <= Len(nodes[p.node].text)}
    IN  {r \in [start : valid, end : valid] :
            \/ r.start.node < r.end.node
            \/ /\ r.start.node = r.end.node
               /\ r.start.offset <= r.end.offset}

\* The page calls listFormattingOnSelected of the earlier class with the
\* selection the user has made, or with none.
ListFormattingOnSelected ==
    /\ nops < MaxEdits
    /\ \E range \in TextRanges(render(model)) \cup {NoRange} :
           hist' = <<[name |-> "listFormattingOnSelected", range |-> range,
                      result |-> listFormattingOnSelected(model, range)]>>
    /\ nops' = nops + 1
    /\ UNCHANGED <<content, dom, sel, listeners, lastSelection, delivered,
                   raised, model>>

ReconcileNext ==
    \/ SetContentSpans
    \/ Input
    \/ ListFormattingOnSelected

ReconcileSpec == Init /\ [][ReconcileNext]_vars

----------------------------------------------------------------------------
\* The characters of a content: each with its linear index (one per line,
\* one per BR, one per character), the class tokens and the styles of the
\* item that holds it.

itemChars(c, li, i) ==
    LET item == c[li].items[i]
    IN  [n \in 1..Len(item.content) |->
            [ch |-> item.content[n],
             at |-> ItemStart(c, li, i) + n - 1,
             cls |-> ClassTokens(item.className),
             stl |-> StyleMap(item.styles)]]

CharsOf(c) ==
    Flatten([li \in 1..Len(c) |->
                Flatten([i \in 1..Len(c[li].items) |-> itemChars(c, li, i)])])

\* The concatenation of all item contents.
TextOf(c) ==
    Flatten([li \in 1..Len(c) |->
                Flatten([i \in 1..Len(c[li].items) |-> c[li].items[i].content])])

\* m overridden by the entries of the styles object stl.
Overridden(m, stl) ==
    [k \in (DOMAIN m) \cup StyleKeys(stl) |->
        IF k \in StyleKeys(stl) THEN StyleValue(stl, k) ELSE m[k]]

\* The last call, and the range [Lo, Hi) it read from the selection.
Last == hist[Len(hist)]
Called(name) == hist # <<>> /\ Last.name = name
Lo(call) == Min2(call.start, call.end)
Hi(call) == Max2(call.start, call.end)
InRange(call, x) == Lo(call) <= x.at /\ x.at < Hi(call)
SelectedChars(call) ==
    {n \in 1..Len(CharsOf(call.before)) : InRange(call, CharsOf(call.before)[n])}

\* The characters stand where they stood before the last call.
SameChars ==
    /\ Len(CharsOf(content)) = Len(CharsOf(Last.before))
    /\ \A n \in 1..Len(CharsOf(content)) :
           /\ CharsOf(content)[n].ch = CharsOf(Last.before)[n].ch
           /\ CharsOf(content)[n].at = CharsOf(Last.before)[n].at

----------------------------------------------------------------------------
\* Canonical form

Formatting(item) == <<ClassTokens(item.className), StyleMap(item.styles)>>

\* No line of c holds two adjacent items with non-empty content whose
\* class-token sets and style maps are both equal.
Canonical(c) ==
    \A li \in 1..Len(c) :
        \A i \in 1..(Len(c[li].items) - 1) :
            (~IsBreak(c[li].items[i]) /\ ~IsBreak(c[li].items[i + 1]))
            => Formatting(c[li].items[i]) # Formatting(c[li].items[i + 1])

\* C1: in every state, no line holds two adjacent items with non-empty
\* content whose class-token sets and style maps are both equal.
CanonicalForm == Canonical(content)

----------------------------------------------------------------------------
\* toggleFormat

\* C2: after toggleFormat on a range holding a character, the content is
\* what unapplyFormat makes of the content before when every content item in
\* the range had the class, and what applyFormat makes of it otherwise.
ToggleDecidesByItems ==
    (Called("toggleFormat") /\ SelectedChars(Last) # {})
    => content =
         IF hasFormatIn(Last.before, Lo(Last), Hi(Last), Last.className)
         THEN unapplyFormatLines(Last.before, Lo(Last), Hi(Last), Last.className)
         ELSE applyFormatLines(Last.before, Lo(Last), Hi(Last), Last.className,
                               Last.styles)

\* C3: after toggleFormat, if a selected character lacked the class, every
\* selected character has it; and never do some selected characters have it
\* while others do not.
ToggleMixedBias ==
    Called("toggleFormat")
    => /\ SameChars
       /\ (\E n \in SelectedChars(Last) :
               ~(ClassTokens(Last.className) \subseteq CharsOf(Last.before)[n].cls))
          => \A n \in SelectedChars(Last) :
                 ClassTokens(Last.className) \subseteq CharsOf(content)[n].cls
       /\ (\E n \in SelectedChars(Last) :
               ClassTokens(Last.className) \subseteq CharsOf(content)[n].cls)
          => \A n \in SelectedChars(Last) :
                 ClassTokens(Last.className) \subseteq CharsOf(content)[n].cls

RunsOf(c) ==
    [li \in 1..Len(c) |->
        [i \in 1..Len(c[li].items) |->
            <<c[li].items[i].content, Formatting(c[li].items[i])>>]]

\* C4: two toggleFormat calls in succession with the same class on the same
\* range of a content in canonical form, the range holding a character and
\* every character in it having the class, leave the items of every line
\* (content, class tokens, styles) as they were before the first call.
ToggleTwiceRestores ==
    (/\ Len(hist) = 2
     /\ hist[1].name = "toggleFormat"
     /\ hist[2].name = "toggleFormat"
     /\ hist[1].className = hist[2].className
     /\ Lo(hist[2]) = Lo(hist[1])
     /\ Hi(hist[2]) = Hi(hist[1])
     /\ Canonical(hist[1].before)
     /\ SelectedChars(hist[1]) # {}
     /\ \A n \in SelectedChars(hist[1]) :
            ClassTokens(hist[1].className) \subseteq CharsOf(hist[1].before)[n].cls)
    => RunsOf(content) = RunsOf(hist[1].before)

----------------------------------------------------------------------------
\* applyFormat, unapplyFormat

\* C5: after applyFormat on a range, every character in the range has its
\* former class tokens plus the given ones, and its former styles overridden
\* by the given ones.
ApplyFormatAddsToSelected ==
    Called("applyFormat")
    => /\ SameChars
       /\ \A n \in SelectedChars(Last) :
              /\ CharsOf(content)[n].cls
                   = CharsOf(Last.before)[n].cls \cup ClassTokens(Last.className)
              /\ CharsOf(content)[n].stl
                   = Overridden(CharsOf(Last.before)[n].stl, Last.styles)

ApplyFormatAddsToSelectedWitness ==
    /\ Called("applyFormat")
    /\ \E n \in SelectedChars(Last) :
           LET was == CharsOf(Last.before)[n]
           IN  /\ was.cls # {}
               /\ ~(ClassTokens(Last.className) \subseteq was.cls)
               /\ \E k \in (DOMAIN was.stl) \cap StyleKeys(Last.styles) :
                      was.stl[k] # StyleValue(Last.styles, k)

FormatCalled ==
    hist # <<>> /\ Last.name \in {"applyFormat", "unapplyFormat", "toggleFormat"}

\* C6: after applyFormat, unapplyFormat or toggleFormat, every character
\* outside the range has the class tokens and styles it had before.
OutsideUntouched ==
    FormatCalled
    => /\ SameChars
       /\ \A n \in (1..Len(CharsOf(Last.before))) \ SelectedChars(Last) :
              /\ CharsOf(content)[n].cls = CharsOf(Last.before)[n].cls
              /\ CharsOf(content)[n].stl = CharsOf(Last.before)[n].stl

\* An item of the content before is cut in three, and its middle changed.
OutsideUntouchedWitness ==
    /\ FormatCalled
    /\ \E li \in 1..Len(Last.before) : \E i \in 1..Len(Last.before[li].items) :
           /\ ItemStart(Last.before, li, i) < Lo(Last)
           /\ Hi(Last) < ItemStart(Last.before, li, i) + Len(Last.before[li].items[i].content)
           /\ Lo(Last) < Hi(Last)
    /\ \E n \in SelectedChars(Last) :
           CharsOf(content)[n].cls # CharsOf(Last.before)[n].cls

\* C7: applyFormat, unapplyFormat and toggleFormat keep the concatenation of
\* all item contents.
TextPreserved == FormatCalled => TextOf(content) = TextOf(Last.before)

TextPreservedWitness ==
    /\ FormatCalled
    /\ TextOf(content) # <<>>
    /\ Len(content) > 1
    /\ \E li \in 1..Len(content) :
           Len(content[li].items) # Len(Last.before[li].items)

\* C8: after unapplyFormat with a class, every character in the range has
\* its former class tokens less the given ones; after unapplyFormat without
\* a class, every character in the range has no class token and no style.
UnapplyFormatRemovesFromSelected ==
    Called("unapplyFormat")
    => /\ SameChars
       /\ \A n \in SelectedChars(Last) :
              IF Last.className # <<>>
              THEN CharsOf(content)[n].cls
                     = CharsOf(Last.before)[n].cls \ ClassTokens(Last.className)
              ELSE /\ CharsOf(content)[n].cls = {}
                   /\ DOMAIN CharsOf(content)[n].stl = {}

UnapplyFormatRemovesFromSelectedWitness ==
    /\ Called("unapplyFormat")
    /\ Last.className # <<>>
    /\ \E n \in SelectedChars(Last) :
           /\ ClassTokens(Last.className) \subseteq CharsOf(Last.before)[n].cls
           /\ CharsOf(Last.before)[n].cls \ ClassTokens(Last.className) # {}

\* C9: applyFormat(t, s) followed by unapplyFormat(t) on the same range, on
\* characters that had no class and no style, leaves them without styles.
StylesLeaveWithToken ==
    (/\ Len(hist) = 2
     /\ hist[1].name = "applyFormat"
     /\ hist[1].styles # <<>>
     /\ hist[2].name = "unapplyFormat"
     /\ hist[2].className = hist[1].className
     /\ Lo(hist[2]) = Lo(hist[1])
     /\ Hi(hist[2]) = Hi(hist[1])
     /\ \A n \in SelectedChars(hist[1]) :
            /\ CharsOf(hist[1].before)[n].cls = {}
            /\ DOMAIN CharsOf(hist[1].before)[n].stl = {})
    => \A n \in SelectedChars(hist[1]) : DOMAIN CharsOf(content)[n].stl = {}

LineAttributes(c) ==
    [li \in 1..Len(c) |-> <<c[li].lineClassName, c[li].lineStyles>>]

\* C10: after unapplyAllFormat without a class, every item of every line has
\* no class and no styles, and every line has the line-level class and
\* styles it had.
UnapplyAllClearsEveryItem ==
    (Called("unapplyAllFormat") /\ Last.className = <<>>)
    => /\ \A li \in 1..Len(content) : \A i \in 1..Len(content[li].items) :
              /\ content[li].items[i].className = <<>>
              /\ content[li].items[i].styles = <<>>
       /\ LineAttributes(content) = LineAttributes(Last.before)

----------------------------------------------------------------------------
\* Selection and linear index

\* The linear range read from the selection now.
SelectionNow == <<getCaretStartIndex(dom, sel), getCaretIndex(dom, sel)>>

\* C11: after applyFormat, unapplyFormat, toggleFormat or unapplyAllFormat
\* called with a non-collapsed selection read as (start, end) inside the
\* content, the selection reads as the same (start, end).
SelectionRestored ==
    (/\ hist # <<>>
     /\ Last.name \in {"applyFormat", "unapplyFormat", "toggleFormat",
                       "unapplyAllFormat"}
     /\ 1 <= Last.start
     /\ Last.start < Last.end
     /\ Last.end <= ContentLength(Last.before))
    => SelectionNow = <<Last.start, Last.end>>

\* Every line of c has an item.
NoEmptyLine(c) == \A li \in 1..Len(c) : c[li].items # <<>>

\* C12: after setCaretIndex(i), or setSelection(i, i), on a content whose
\* lines all have an item, with i from the first position of the first line
\* to the end of the last line, the caret reads as i.
IndexRoundTrip ==
    (/\ hist # <<>>
     /\ NoEmptyLine(content)
     /\ Last.name \in {"setCaretIndex", "setSelection"}
     /\ Last.startIndex = Last.endIndex
     /\ 1 <= Last.startIndex
     /\ Last.startIndex <= ContentLength(content))
    => SelectionNow = <<Last.startIndex, Last.startIndex>>

\* The places of the surface that stand for one linear index each: before
\* and after every character and every BR, as boundary points.
UnitStarts(d0) ==
    UNION { UNION { IF d0[d].kids[c].tag = "br" THEN {KidOpen(d0, d, c)}
                    ELSE {pointRank(d0, Point("txt", d, c, o)) :
                             o \in 0..(Len(d0[d].kids[c].text) - 1)} :
                    c \in 1..Len(d0[d].kids) } :
            d \in {j \in 1..Len(d0) : d0[j].tag = "div"} }

UnitEnds(d0) ==
    UNION { UNION { IF d0[d].kids[c].tag = "br"
                    THEN {KidOpen(d0, d, c) + KidSize(d0[d].kids[c])}
                    ELSE {pointRank(d0, Point("txt", d, c, o)) :
                             o \in 1..Len(d0[d].kids[c].text)} :
                    c \in 1..Len(d0[d].kids) } :
            d \in {j \in 1..Len(d0) : d0[j].tag = "div"} }

\* p lies in the editor with no character and no BR before it.
AtStart(d0, p) ==
    p.k # "doc" /\ \A u \in UnitStarts(d0) : pointRank(d0, p) <= u

\* p lies in the editor with no character and no BR after it.
AtEnd(d0, p) ==
    p.k # "doc" /\ \A u \in UnitEnds(d0) : pointRank(d0, p) >= u

\* C13: after setCaretIndex or setSelection on a rendered content, there is
\* a selection; a negative index has put its start at the start of the
\* content, an index greater than the linear length has put its end at the
\* end of the content.
OutOfRangeClamps ==
    (/\ hist # <<>>
     /\ Last.name \in {"setCaretIndex", "setSelection"}
     /\ NoEmptyLine(content)
     /\ content # <<>>)
    => /\ Min2(Last.startIndex, Last.endIndex) < 0
          => sel.active /\ AtStart(dom, sel.s)
       /\ Max2(Last.startIndex, Last.endIndex) > ContentLength(content)
          => sel.active /\ AtEnd(dom, sel.e)

----------------------------------------------------------------------------
\* Queries

\* The linear index a boundary point of the surface stands for: one for
\* every line entered, every BR passed and every character passed.
TrueIndex(d0, p) ==
    Cardinality({d \in 1..Len(d0) : d0[d].tag = "div" /\ TopOpen(d0, d) < pointRank(d0, p)})
    + Cardinality({u \in UnitEnds(d0) : u <= pointRank(d0, p)})

\* The characters of the content between the two ends of the selection.
Selected ==
    IF ~sel.active THEN {}
    ELSE {n \in 1..Len(CharsOf(content)) :
             /\ Min2(TrueIndex(dom, sel.s), TrueIndex(dom, sel.e)) <= CharsOf(content)[n].at
             /\ CharsOf(content)[n].at < Max2(TrueIndex(dom, sel.s), TrueIndex(dom, sel.e))}

\* C14: on a content whose lines all have an item, with a selection that
\* holds a character, hasFormat returns true exactly when every character
\* in the selection has the class.
HasFormatIffAllSelected ==
    (Called("hasFormat") /\ NoEmptyLine(content) /\ Selected # {})
    => (Last.result
        <=> \A n \in Selected :
                ClassTokens(Last.className) \subseteq CharsOf(content)[n].cls)

\* C15: on a content whose lines all have an item, includesClass returns
\* true exactly when some character in the selection has the class (and so
\* false when the selection is collapsed or absent).
IncludesClassIffSomeSelected ==
    (Called("includesClass") /\ NoEmptyLine(content))
    => (Last.result
        <=> \E n \in Selected :
                ClassTokens(Last.className) \subseteq CharsOf(content)[n].cls)

\* The line a boundary point of the surface lies in: the last line entered
\* before it (0 before the first line).
TrueLine(d0, p) ==
    Cardinality({d \in 1..Len(d0) : d0[d].tag = "div" /\ TopOpen(d0, d) < pointRank(d0, p)})

\* The lines from the one the selection starts in to the one it ends in;
\* for a caret, the line it is in.
SelectedLines ==
    IF ~sel.active \/ sel.s.k = "doc" \/ sel.e.k = "doc" THEN {}
    ELSE {li \in 1..Len(content) :
             /\ Min2(TrueLine(dom, sel.s), TrueLine(dom, sel.e)) <= li
             /\ li <= Max2(TrueLine(dom, sel.s), TrueLine(dom, sel.e))}

\* C16: on a content whose lines all have an item, lineHasFormat returns
\* true exactly when there is a selected line and every selected line has
\* the class among its line-level class tokens.
LineHasFormatIffAllLines ==
    (Called("lineHasFormat") /\ NoEmptyLine(content))
    => (Last.result
        <=> /\ SelectedLines # {}
            /\ \A li \in SelectedLines :
                   ClassTokens(Last.className)
                       \subseteq ClassTokens(content[li].lineClassName))

----------------------------------------------------------------------------
\* Line-level formatting

\* The lines of the content the call found that its selection lay in, from
\* the line it started in to the line it ended in.
LinesSelectedAt(call) ==
    LET d0 == updateDom(call.before)
        r == call.selBefore
    IN  IF ~r.active \/ r.s.k = "doc" \/ r.e.k = "doc" THEN {}
        ELSE {li \in 1..Len(call.before) :
                 /\ Min2(TrueLine(d0, r.s), TrueLine(d0, r.e)) <= li
                 /\ li <= Max2(TrueLine(d0, r.s), TrueLine(d0, r.e))}

LineHas(c, li, cls) == ClassTokens(cls) \subseteq ClassTokens(c[li].lineClassName)

\* Both ends of the selection the call found lay inside lines.
SelectedInLines(call) ==
    /\ call.selBefore.active
    /\ call.selBefore.s.k \in {"top", "kid", "txt"}
    /\ call.selBefore.e.k \in {"top", "kid", "txt"}

\* C17: toggleFormatOnLine on a content whose lines all have an item, with
\* both ends of the selection inside lines, takes the class from every
\* selected line when every selected line had it, and otherwise gives it to
\* every selected line.
ToggleOnLineAllOrNothing ==
    (/\ Called("toggleFormatOnLine")
     /\ SelectedInLines(Last)
     /\ NoEmptyLine(Last.before)
     /\ Len(content) = Len(Last.before))
    => IF \A li \in LinesSelectedAt(Last) : LineHas(Last.before, li, Last.className)
       THEN \A li \in LinesSelectedAt(Last) :
                ClassTokens(Last.className) \cap ClassTokens(content[li].lineClassName) = {}
       ELSE \A li \in LinesSelectedAt(Last) : LineHas(content, li, Last.className)

\* Every line of c whose items are all BRs has no line-level class and no
\* line-level styles.
BreakLinesBare(c) ==
    \A li \in 1..Len(c) :
        (c[li].items # <<>> /\ \A i \in 1..Len(c[li].items) : IsBreak(c[li].items[i]))
        => (c[li].lineClassName = <<>> /\ c[li].lineStyles = <<>>)

\* C18: applyFormatOnLine and toggleFormatOnLine, called on a content whose
\* BR-only lines have no line-level class or styles, leave a content whose
\* BR-only lines have none.
BreakLinesStayBare ==
    (/\ hist # <<>>
     /\ Last.name \in {"applyFormatOnLine", "toggleFormatOnLine"}
     /\ BreakLinesBare(Last.before))
    => BreakLinesBare(content)


----------------------------------------------------------------------------
\* Markup round trip

\* A document: at least one line, at least one item in every line, no class
\* and no styles on a break item, and no two adjacent items to merge.
ValidDocument(c) ==
    /\ Len(c) >= 1
    /\ \A li \in 1..Len(c) :
        /\ Len(c[li].items) >= 1
        /\ \A i \in 1..Len(c[li].items) :
            IsBreak(c[li].items[i])
            => (c[li].items[i].className = <<>> /\ c[li].items[i].styles = <<>>)
    /\ Canonical(c)

NoBreakAtLineStart(c) == \A li \in 1..Len(c) : ~IsBreak(c[li].items[1])

SameRun(a, b) ==
    /\ a.content = b.content
    /\ ClassTokens(a.className) = ClassTokens(b.className)
    /\ StyleMap(a.styles) = StyleMap(b.styles)

SameDocument(c1, c2) ==
    /\ Len(c1) = Len(c2)
    /\ \A li \in 1..Len(c1) :
        /\ Len(c1[li].items) = Len(c2[li].items)
        /\ \A i \in 1..Len(c1[li].items) : SameRun(c1[li].items[i], c2[li].items[i])
        /\ ClassTokens(c1[li].lineClassName) = ClassTokens(c2[li].lineClassName)
        /\ StyleMap(c1[li].lineStyles) = StyleMap(c2[li].lineStyles)

\* C19: when a canonical document d with no break item at the start of a
\* line is loaded with setContentFromJson and the markup getHTML returns is
\* given to setContent, the content equals d: the same lines in the same
\* order, the same items (text, class set, style map) in each line, and the
\* same line classes and line styles.
MarkupRoundTrip ==
    (/\ Len(hist) = 2
     /\ hist[1].name = "setContentFromJson"
     /\ hist[2].name = "setContent"
     /\ ValidDocument(hist[1].arg)
     /\ NoBreakAtLineStart(hist[1].arg))
    => SameDocument(content, hist[1].arg)


----------------------------------------------------------------------------
\* Markup without a block container

NoBlockContainer(nodes) == \A i \in 1..Len(nodes) : nodes[i].tag # "div"

\* The markup with every tag taken out.
strippedText(nodes) == Flatten([i \in 1..Len(nodes) |-> nodes[i].text])

Unformatted(c) ==
    \A li \in 1..Len(c) :
        \A i \in 1..Len(c[li].items) :
            c[li].items[i].className = <<>> /\ c[li].items[i].styles = <<>>

\* C20: after setContent of markup that holds no DIV (plain text, text in
\* other inline elements, the empty string), the content is exactly one
\* line, no item has a class or a style, and the items' text in order is the
\* markup with its tags taken out.
FallbackPlainText ==
    (/\ hist # <<>>
     /\ Last.name = "setContent"
     /\ Last.before = <<>>
     /\ NoBlockContainer(Last.arg))
    => (/\ Len(content) = 1
        /\ Unformatted(content)
        /\ TextOf(content) = strippedText(Last.arg))


----------------------------------------------------------------------------
\* Shape of the content

\* C21: in every state, from construction on, the content has at least one
\* line and every line has at least one item.
NeverWithoutLineOrItem ==
    /\ Len(content) >= 1
    /\ \A li \in 1..Len(content) : Len(content[li].items) >= 1


----------------------------------------------------------------------------
\* Notifications

MutatingOperations ==
    {"applyFormat", "unapplyFormat", "toggleFormat", "unapplyAllFormat",
     "applyFormatOnLine", "removeFormatFromLine", "toggleFormatOnLine",
     "setContent", "setContentFromJson", "handleInput"}

ReplacingOperations == {"setContent", "setContentFromJson", "handleInput"}

\* The last step was a call of a public operation that changed the content.
ChangedContent ==
    /\ hist # <<>>
    /\ Last.name \in MutatingOperations
    /\ (Last.name \in ReplacingOperations \/ content # Last.before)

\* Callback fn was invoked in the last step for this event with these
\* arguments.
Invoked(fn, type, args) ==
    \E i \in 1..Len(delivered) :
        /\ delivered[i].fn = fn
        /\ delivered[i].type = type
        /\ delivered[i].args = args

\* C22: when a public operation has changed the content, every callback
\* that was registered for 'change' when it was called has been invoked
\* during the call, with the content and the markup as they are after it.
ChangeNotified ==
    ChangedContent
    => \A fn \in SeqRange(Last.listenersBefore["change"]) :
           Invoked(fn, "change", <<content, innerHTML(dom)>>)

ChangeNotifiedWitness ==
    ~(/\ ChangedContent
      /\ Last.name = "applyFormat"
      /\ Len(Last.listenersBefore["change"]) >= 1
      /\ delivered # <<>>)


\* The last step was a selectionchange event with the selection in the
\* editor.
SelectionReported ==
    /\ hist # <<>>
    /\ Last.name = "selectionchange"
    /\ Last.selBefore.active
    /\ inEditor(Last.selBefore.s)
    /\ inEditor(Last.selBefore.e)

\* C23: a selectionchange event with the selection in the editor invokes
\* each callback registered for 'select' once per registration, in order,
\* with the range <<start, end>> the selection reads as, whether or not
\* the event before reported the same range.
SelectEveryReport ==
    SelectionReported
    => /\ Len(delivered) = Len(Last.listenersBefore["select"])
       /\ \A i \in 1..Len(delivered) :
           /\ delivered[i].fn = Last.listenersBefore["select"][i]
           /\ delivered[i].type = "select"
           /\ delivered[i].args[1] = <<Last.start, Last.end>>

SelectEveryReportWitness ==
    ~(/\ SelectionReported
      /\ Len(hist) = 2
      /\ hist[1].name = "selectionchange"
      /\ <<hist[1].start, hist[1].end>> = <<hist[2].start, hist[2].end>>
      /\ Len(Last.listenersBefore["select"]) >= 1
      /\ delivered # <<>>)


\* Callback g, which throws, was invoked in the last step.
ThrowerInvoked == \E i \in 1..Len(delivered) : delivered[i].fn = "g"

\* C24: when a callback throws during a delivery, every callback of the
\* event is still invoked, in the order of registration and with the same
\* arguments, nothing is thrown to the caller of the operation, and a
\* 'change' notification carries the content the operation left.
ThrowingListenerIsolated ==
    ThrowerInvoked
    => /\ ~raised
       /\ hist # <<>>
       /\ Len(delivered) = Len(Last.listenersBefore[delivered[1].type])
       /\ \A i \in 1..Len(delivered) :
           /\ delivered[i].fn = Last.listenersBefore[delivered[1].type][i]
           /\ delivered[i].args = delivered[1].args
           /\ delivered[i].type = "change" => delivered[i].args[1] = content

ThrowingListenerIsolatedWitness ==
    ~(\E i \in 1..Len(delivered) :
         /\ delivered[i].fn = "g"
         /\ \E j \in (i + 1)..Len(delivered) : delivered[j].fn = "f")


\* C25: a callback is invoked only while it is registered: once
\* off(event, callback) has returned, also when it was called from another
\* callback during a delivery, callback is not invoked for that event.
RemovedNotInvoked == \A i \in 1..Len(delivered) : delivered[i].registered


----------------------------------------------------------------------------
\* The value of getJson

\* C26: after a caller has changed any part of a value it got from
\* getJson() (an item's content, class or styles, a line's items, class
\* or styles, the list of lines) the content is what it was before, and
\* so is what getJson() returns.
JsonIsCopy ==
    (hist # <<>> /\ Last.name = "getJson")
    => (content = Last.before /\ getJson(content) = getJson(Last.before))

JsonIsCopyWitness ==
    ~(/\ hist # <<>>
      /\ Last.name = "getJson"
      /\ Last.arg.part = "styles"
      /\ Len(content) >= 1)


----------------------------------------------------------------------------
\* Construction on a surface that is not valid

\* C27: constructing on a surface that is absent, is no element, or is an
\* element that is not editable throws: the caller gets no instance and no
\* event handler is left registered.
ConstructionRejectsInvalid ==
    (/\ hist # <<>>
     /\ Last.name = "constructor"
     /\ Last.arg \in {"absent", "notAnElement", "notEditable"})
    => (/\ Last.result.raised
        /\ ~Last.result.instance
        /\ Last.result.handlers = {})


----------------------------------------------------------------------------
\* No selection

\* The last step was a call of applyFormat, unapplyFormat or toggleFormat
\* with no selection or with a collapsed one.
CalledWithoutRange ==
    /\ hist # <<>>
    /\ Last.name \in {"applyFormat", "unapplyFormat", "toggleFormat"}
    /\ (~Last.selBefore.active \/ Last.selBefore.s = Last.selBefore.e)

\* C28: applyFormat, unapplyFormat and toggleFormat called with no
\* selection or with a collapsed selection leave the content as it was,
\* throw nothing and invoke no callback.
NoRangeNoOp ==
    CalledWithoutRange
    => (/\ content = Last.before
        /\ ~raised
        /\ delivered = <<>>)

NoRangeNoOpWitness ==
    ~(/\ CalledWithoutRange
      /\ Last.selBefore.active
      /\ Len(Last.listenersBefore["change"]) >= 1
      /\ TextOf(content) # <<>>)

----------------------------------------------------------------------------
\* The reconciler of the earlier class

\* The texts of the spans of a model, joined in order.
ModelText(m) == Flatten([i \in 1..Len(m) |-> m[i].text])

\* The last step was an edit of the user that the 'input' listener handled.
InputHandled == hist # <<>> /\ hist[1].name = "input"

\* C29: after the 'input' listener has rebuilt the model from the plain
\* text the element reports, the texts of the spans, joined in order with a
\* break read as the newline character, are that plain text exactly.
ReconciledTextExact ==
    InputHandled => ModelText(model) = hist[1].innerText

\* The formats of the character at position pos of the joined text of m.
fmtAt(m, pos) ==
    LET i == CHOOSE n \in 1..Len(m) :
                 /\ Len(ModelText(SubSeq(m, 1, n - 1))) < pos
                 /\ pos <= Len(ModelText(SubSeq(m, 1, n)))
    IN  m[i].fmt

\* The texts an edit inserts: characters that occur nowhere in the old text.
Insertions == { <<"z">>, <<"z", "z">> }

\* The reported text is the old text with ins put in after its first k
\* spans, every old character kept.
InsertedAfter(old, k, ins) ==
    /\ "z" \notin SeqRange(ModelText(old))
    /\ hist[1].innerText = ModelText(SubSeq(old, 1, k)) \o ins
                           \o ModelText(SubSeq(old, k + 1, Len(old)))

\* Every inserted character has the formats fmt in the new model.
InsertedHas(old, k, ins, fmt) ==
    \A j \in 1..Len(ins) :
        fmtAt(model, Len(ModelText(SubSeq(old, 1, k))) + j) = fmt

\* Text inserted at the boundary of two spans of text with different
\* formats takes the formats of the span before it.
BetweenTakesPreceding ==
    InputHandled =>
        LET old == hist[1].oldModel
        IN  \A k \in 1..(Len(old) - 1) : \A ins \in Insertions :
                ( /\ InsertedAfter(old, k, ins)
                  /\ old[k].fmt # old[k + 1].fmt
                  /\ "\n" \notin SeqRange(old[k].text \o old[k + 1].text) )
                => InsertedHas(old, k, ins, old[k].fmt)

\* Text inserted at the very start takes the formats of the first span.
AtStartTakesFollowing ==
    InputHandled =>
        LET old == hist[1].oldModel
        IN  \A ins \in Insertions :
                (InsertedAfter(old, 0, ins) /\ ModelText(old) # <<>>)
                => InsertedHas(old, 0, ins, old[1].fmt)

\* Text appended at the end takes the formats of the last span.
AtEndTakesLast ==
    InputHandled =>
        LET old == hist[1].oldModel
        IN  \A ins \in Insertions :
                (InsertedAfter(old, Len(old), ins) /\ ModelText(old) # <<>>)
                => InsertedHas(old, Len(old), ins, old[Len(old)].fmt)

\* C30: text inserted at the boundary of two differently formatted spans
\* that both survive takes the formats of the span before it; inserted at
\* the very start it takes those of the span after it; appended at the end
\* it takes those of the last span.
InsertedTextFormatting ==
    /\ BetweenTakesPreceding
    /\ AtStartTakesFollowing
    /\ AtEndTakesLast

----------------------------------------------------------------------------
\* listFormattingOnSelected of the earlier class

ListingCalled == hist # <<>> /\ hist[1].name = "listFormattingOnSelected"

\* The position in the text of the model of a point of the rendering: the
\* characters of the spans before its node, a break counted as one, plus
\* the offset.
textPosition(m, point) ==
    Len(ModelText(SubSeq(m, 1, point.node - 1))) + point.offset

\* The formats of the spans of m that have a character in the range, in
\* order.
intersected(m, range) ==
    LET from == textPosition(m, range.start)
        to == textPosition(m, range.end)
        hit == {i \in 1..Len(m) :
                   \E n \in 1..Len(m[i].text) :
                       LET at == Len(ModelText(SubSeq(m, 1, i - 1))) + n - 1
                       IN  from <= at /\ at < to}
    IN  [k \in 1..Cardinality(hit) |->
            m[CHOOSE i \in hit : Cardinality({j \in hit : j < i}) = k - 1].fmt]

\* C31: listFormattingOnSelected returns, in document order, the formats
\* of exactly the spans that have at least one character in the selection,
\* one entry per span, and the empty list for a collapsed or absent
\* selection.
ListsIntersectedRuns ==
    ListingCalled =>
        hist[1].result = IF hist[1].range = NoRange THEN <<>>
                         ELSE intersected(model, hist[1].range)

----------------------------------------------------------------------------
\* What a 'change' callback finds when it is invoked

\* The 'change' invocations of the last step.
ChangeCalls == {i \in 1..Len(delivered) : delivered[i].type = "change"}

\* C32: a 'change' callback is invoked as the last thing its operation
\* does: the content and markup it is given and the caret index it reads
\* are those the caller finds when the operation has returned.
ChangeIsLastStep ==
    \A i \in ChangeCalls :
        /\ delivered[i].args = changeArgs(Cur)
        /\ delivered[i].caret = getCaretIndex(dom, sel)

----------------------------------------------------------------------------
\* Break items under the formatting operations

\* No break item of c has a class or a style.
BareBreaks(c) ==
    \A li \in 1..Len(c) : \A i \in 1..Len(c[li].items) :
        IsBreak(c[li].items[i])
        => (c[li].items[i].className = <<>> /\ c[li].items[i].styles = <<>>)

\* A line as its breaks and the places of its characters, in order.
breakShape(line) ==
    Flatten([i \in 1..Len(line.items) |->
                IF IsBreak(line.items[i]) THEN <<"br">>
                ELSE [n \in 1..Len(line.items[i].content) |-> "character"]])

\* c has the lines of b with every break where it was.
BreaksInPlace(b, c) ==
    /\ Len(c) = Len(b)
    /\ \A li \in 1..Len(c) : breakShape(c[li]) = breakShape(b[li])

RunFormatCalled ==
    /\ hist # <<>>
    /\ Last.name \in {"applyFormat", "unapplyFormat", "toggleFormat",
                       "unapplyAllFormat"}

\* C33: no break item ever has a class or a style, and applyFormat,
\* unapplyFormat, toggleFormat and unapplyAllFormat leave every line with
\* its breaks in the same number and at the same places.
BreaksBareAndInPlace ==
    /\ BareBreaks(content)
    /\ RunFormatCalled => BreaksInPlace(Last.before, content)

----------------------------------------------------------------------------
\* The form of the stored class values

\* Every class value stored in c, on an item or on a line, has its tokens
\* sorted and once each.
CanonicalClasses(c) ==
    \A li \in 1..Len(c) :
        /\ c[li].lineClassName = canonClass(c[li].lineClassName)
        /\ \A i \in 1..Len(c[li].items) :
               c[li].items[i].className = canonClass(c[li].items[i].className)

\* C34: after any public operation the class value of every item and of
\* every line is canonical: its tokens sorted and without duplicates.
ClassesCanonical ==
    (hist # <<>> /\ Last.name \in MutatingOperations)
    => CanonicalClasses(content)

----------------------------------------------------------------------------
\* The text of a 'select' notification

\* The characters of c whose linear index is at least lo and less than hi,
\* in document order.
charactersWithin(c, lo, hi) ==
    LET chars == CharsOf(c)
        inside == {n \in 1..Len(chars) : lo <= chars[n].at /\ chars[n].at < hi}
    IN  [k \in 1..Cardinality(inside) |->
            chars[CHOOSE n \in inside :
                      Cardinality({j \in inside : j < n}) = k - 1].ch]

SelectCalls == {i \in 1..Len(delivered) : delivered[i].type = "select"}

\* C35: the text given with a 'select' notification for the range
\* <<start, end>> is made of exactly the characters whose linear index is
\* in [min(start, end), max(start, end)), in document order, a line and a
\* break taking one index each and giving no text; it is empty for a
\* collapsed range.
SelectTextIsRange ==
    \A i \in SelectCalls :
        LET range == delivered[i].args[1]
        IN  delivered[i].args[2] =
                charactersWithin(content, Min2(range[1], range[2]),
                                 Max2(range[1], range[2]))

SelectTextIsRangeWitness ==
    ~(\E i \in SelectCalls :
         LET range == delivered[i].args[1]
             lo == Min2(range[1], range[2])
         IN  /\ delivered[i].args[2] # <<>>
             /\ \E li \in 1..Len(content) : \E k \in 1..Len(content[li].items) :
                    /\ IsBreak(content[li].items[k])
                    /\ ItemStart(content, li, k) < lo)

----------------------------------------------------------------------------
\* The merge pass and the order of style keys

\* The last step was an applyFormat, unapplyFormat or unapplyAllFormat that
\* went through its merge pass: the first two return before it when the
\* selection is collapsed.
MergePassRan ==
    /\ hist # <<>>
    /\ \/ Last.name = "unapplyAllFormat"
       \/ /\ Last.name \in {"applyFormat", "unapplyFormat"}
          /\ Last.start # Last.end

\* C36: after the merge pass of applyFormat, unapplyFormat or
\* unapplyAllFormat no line holds two adjacent content items with equal
\* class sets and style maps of the same key/value pairs, whatever the order
\* in which the style keys were added to each.
MergeIgnoresKeyOrder == MergePassRan => Canonical(content)

----------------------------------------------------------------------------
\* The lines of the content and the DIVs of the surface

\* C37: after any public operation the surface has one DIV for each line
\* of the content, in order, the k-th DIV holding one child for each item of
\* the k-th line, and the linear length counted on the content equals the
\* one counted on the surface.
SurfaceHasEveryLine ==
    (hist # <<>> /\ Last.name \in MutatingOperations)
    => /\ Len(dom) = Len(content)
       /\ \A k \in 1..Len(dom) :
              /\ dom[k].tag = "div"
              /\ Len(dom[k].kids) = Len(content[k].items)
       /\ DomLength(dom) = ContentLength(content)


----------------------------------------------------------------------------
\* Queries directly after a format call

\* The last call read a selection with a character of the content in it and
\* was given a class token.
FormattedSomeText(name) ==
    /\ Called(name)
    /\ Last.className # <<>>
    /\ SelectedChars(Last) # {}

\* C38: directly after applyFormat(token) on a selection with a character in
\* it hasFormat(token) answers true, and directly after unapplyFormat(token)
\* on such a selection includesClass(token) answers false, wherever the
\* selection starts.
QueriesAgreeWithFormatCall ==
    /\ FormattedSomeText("applyFormat") => hasFormat(Cur, Last.className)
    /\ FormattedSomeText("unapplyFormat") => ~includesClass(Cur, Last.className)


----------------------------------------------------------------------------
\* The two class queries

\* The last call was one of the two class queries.
ClassQueried == Called("hasFormat") \/ Called("includesClass")

\* C39: for every list of class tokens, hasFormat answers true only where
\* includesClass answers true too (so includesClass false means hasFormat
\* false), and a call of either query leaves the content and the selection as
\* they were and calls no listener.
HasFormatImpliesIncludesClass ==
    /\ \A cls \in ClassQueryArgs : hasFormat(Cur, cls) => includesClass(Cur, cls)
    /\ ClassQueried
       => /\ content = Last.before
          /\ getCaretStartIndex(dom, sel) = Last.start
          /\ getCaretIndex(dom, sel) = Last.end
          /\ delivered = <<>>
          /\ ~raised

HasFormatImpliesIncludesClassWitness ==
    ~(/\ Called("hasFormat")
      /\ Len(Last.className) > 1
      /\ Last.result
      /\ includesClass(Cur, Last.className))


----------------------------------------------------------------------------
\* Progress of the reconciling walk

\* The most iterations a walk can make if each takes a character of the
\* text or goes on to the next old span.
MostIterations(oldModel, text) == Len(text) + Len(oldModel)

\* The loop variables at the head of the while loop, iteration by
\* iteration, for at most n iterations of the later definition.
RECURSIVE iterations(_, _, _, _)
iterations(oldModel, text, w, n) ==
    IF n = 0 \/ w.textPos >= Len(text) THEN <<w>>
    ELSE <<w>> \o iterations(oldModel, text, reconcileStep(oldModel, text, w), n - 1)

\* The same for the earlier definition.
RECURSIVE iterationsFirst(_, _, _, _)
iterationsFirst(oldModel, text, w, n) ==
    IF n = 0 \/ w.textPos >= Len(text) THEN <<w>>
    ELSE <<w>> \o iterationsFirst(oldModel, text,
                                  reconcileFirstStep(oldModel, text, w), n - 1)

\* The walks of the last input event.
LastText == removeTrailingNewline(hist[1].innerText)
LastWalk ==
    iterations(hist[1].oldModel, LastText, Walk(0, 0, 0, <<>>),
               MostIterations(hist[1].oldModel, LastText))
LastWalkFirst ==
    iterationsFirst(hist[1].oldModel, LastText, Walk(0, 0, 0, <<>>),
                    MostIterations(hist[1].oldModel, LastText))

\* An iteration from v to w took a character of the text or went on to the
\* next old span, and stayed within both.
Progressed(v, w) ==
    /\ \/ w.textPos > v.textPos
       \/ w.oldSpanIdx = v.oldSpanIdx + 1
    /\ w.textPos >= v.textPos
    /\ w.oldSpanIdx >= v.oldSpanIdx
    /\ w.textPos <= Len(LastText)
    /\ w.oldSpanIdx <= Len(hist[1].oldModel)

\* Every iteration of the walk progressed and the walk has come to the end
\* of the text.
Terminates(walked) ==
    /\ \A k \in 1..(Len(walked) - 1) : Progressed(walked[k], walked[k + 1])
    /\ walked[Len(walked)].textPos >= Len(LastText)

\* C40: for every old model and every new text, each iteration of the
\* reconciling walk takes at least one character of the new text or goes on
\* to the next old span, so the walk ends.
WalkProgresses ==
    InputHandled => Terminates(LastWalk) /\ Terminates(LastWalkFirst)

WalkProgressesWitness ==
    ~(/\ InputHandled
      /\ \E k \in 1..(Len(LastWalk) - 1) :
             /\ LastWalk[k + 1].textPos = LastWalk[k].textPos
             /\ LastWalk[k + 1].oldSpanIdx = LastWalk[k].oldSpanIdx + 1
      /\ \E k \in 1..(Len(LastWalk) - 1) :
             /\ LastWalk[k + 1].textPos > LastWalk[k].textPos
             /\ LastWalk[k + 1].oldSpanIdx = LastWalk[k].oldSpanIdx)

====
